---- MODULE Spec2Model ----
(***************************************************************************)
(* Identity resolution of NxController: the DeviceRegistry of              *)
(* nx_controller/__init__.py (automatic hostname/IP matching, the map_mac  *)
(* service) and the known-devices store of nx_controller/identity.py       *)
(* (bootstrap / pending consolidation, manual association).                *)
(*                                                                         *)
(* The two stores belong to two variants of the integration (__init__.py   *)
(* does not import identity.py, and imports names const.py does not        *)
(* define): a running integration holds one of them.  variant says which;  *)
(* the stores never interact, so nothing reachable in either is lost.      *)
(*                                                                         *)
(* Spec drives the two stores through their own operations.  CoordSpec     *)
(* drives the DeviceRegistry the way the running integration does: by the  *)
(* coordinator's update cycle, the map_mac service and a restart; stored   *)
(* is the registry document on disk, data the coordinator's last output,   *)
(* bus the EVENT_NEW_MAC_DETECTED events fired so far.  KnownSpec is the   *)
(* known-devices store alone; LoadSpec starts from a stored document and   *)
(* loads it; NormSpec applies the two MAC normalizers to text; AggSpec     *)
(* runs the device aggregator of nx_controller/api.py on what the router   *)
(* prints; TaskSpec interleaves the coroutines of the update cycle and of  *)
(* the map_mac service at their awaits; EntriesSpec sets up several config *)
(* entries, each with a registry of its own over the one stored document.  *)
(*                                                                         *)
(* A Python str is a sequence of one-character strings; Python's None is   *)
(* the one-element sequence <<"None">>, which no str equals.               *)
(***************************************************************************)
EXTENDS Integers, Sequences, FiniteSets, TLC

VARIABLES variant, calls, devices, known, last, stored, data, bus, tasks, hass_data

vars == <<variant, calls, devices, known, last, stored, data, bus, tasks, hass_data>>

None == <<"None">>

\* Python truthiness of an Optional[str]: None and "" are falsy.
Truthy(x) == x # None /\ x # <<>>

InSeq(x, s) == \E i \in 1..Len(s) : s[i] = x

\* set(s) for a list s
SeqSet(s) == {s[i] : i \in 1..Len(s)}

RemoveAt(s, i) == [j \in 1..(Len(s) - 1) |-> IF j < i THEN s[j] ELSE s[j + 1]]

SeqMin(S) == CHOOSE i \in S : \A j \in S : i <= j

\* list.remove(x): drops the first occurrence.
RemoveFirst(s, x) ==
    LET S == {i \in 1..Len(s) : s[i] = x}
    IN  IF S = {} THEN s ELSE RemoveAt(s, SeqMin(S))

\* [m for m in s if m != x]
Without(s, x) == SelectSeq(s, LAMBDA y : y # x)

\* for m in src: if m not in dst: dst.append(m)
RECURSIVE ExtendNew(_, _)
ExtendNew(dst, src) ==
    IF src = <<>> THEN dst
    ELSE ExtendNew(IF InSeq(Head(src), dst) THEN dst ELSE Append(dst, Head(src)),
                   Tail(src))

(***************************************************************************)
(* Characters                                                              *)
(***************************************************************************)
HexUpper == {"0", "1", "2", "3", "4", "5", "6", "7", "8", "9",
             "A", "B", "C", "D", "E", "F"}
HexLower == {"a", "b", "c", "d", "e", "f"}
IsHex(c) == c \in HexUpper \cup HexLower

UpperChar(c) ==
    CASE c = "a" -> "A" [] c = "b" -> "B" [] c = "c" -> "C"
      [] c = "d" -> "D" [] c = "e" -> "E" [] c = "f" -> "F"
      [] c = "p" -> "P" [] c = "q" -> "Q"
      [] OTHER -> c

LowerChar(c) ==
    CASE c = "A" -> "a" [] c = "B" -> "b" [] c = "C" -> "c"
      [] c = "D" -> "d" [] c = "E" -> "e" [] c = "F" -> "f"
      [] c = "P" -> "p" [] c = "Q" -> "q"
      [] OTHER -> c

Upper(s) == [i \in 1..Len(s) |-> UpperChar(s[i])]
Lower(s) == [i \in 1..Len(s) |-> LowerChar(s[i])]

IsSpace(c) == c = " "

RECURSIVE LStrip(_)
LStrip(s) == IF s # <<>> /\ IsSpace(Head(s)) THEN LStrip(Tail(s)) ELSE s

RECURSIVE RStrip(_)
RStrip(s) ==
    IF s # <<>> /\ IsSpace(s[Len(s)]) THEN RStrip(SubSeq(s, 1, Len(s) - 1)) ELSE s

Strip(s) == RStrip(LStrip(s))

(***************************************************************************)
(* MAC normalizers                                                         *)
(***************************************************************************)
\* ([0-9A-Fa-f]{2}[:-]){5}([0-9A-Fa-f]{2})
MacPairs == 5
MacMatchLen == 3 * MacPairs + 2

MacMatchAt(s, i) ==
    /\ i + MacMatchLen - 1 <= Len(s)
    /\ \A k \in 0..MacPairs :
          /\ IsHex(s[i + 3 * k])
          /\ IsHex(s[i + 3 * k + 1])
          /\ (k < MacPairs => s[i + 3 * k + 2] \in {":", "-"})

\* A slip: the parts are joined as matched, not upper-cased.
normalize_mac_keeps_case(mac) ==
    LET s == IF Truthy(mac) THEN mac ELSE <<>>
        S == {i \in 1..Len(s) : MacMatchAt(s, i)}
    IN  IF S = {} THEN None
        ELSE LET m == SubSeq(s, SeqMin(S), SeqMin(S) + MacMatchLen - 1)
             IN  [i \in 1..MacMatchLen |-> IF m[i] = "-" THEN ":" ELSE m[i]]

\* ssh_client.normalize_mac: first regex match, "-" -> ":", parts upper-cased.
normalize_mac(mac) ==
    LET s == IF Truthy(mac) THEN mac ELSE <<>>
        S == {i \in 1..Len(s) : MacMatchAt(s, i)}
    IN  IF S = {} THEN None
        ELSE LET m == SubSeq(s, SeqMin(S), SeqMin(S) + MacMatchLen - 1)
             IN  [i \in 1..MacMatchLen |->
                    IF m[i] = "-" THEN ":" ELSE UpperChar(m[i])]

MacHexDigits == 12

\* api._normalize_mac: keep the hex digits, exactly 12, upper-case, colons.
api_normalize_mac(mac) ==
    IF ~Truthy(mac) THEN None
    ELSE LET mac_clean == SelectSeq(mac, IsHex)
         IN  IF Len(mac_clean) # MacHexDigits THEN None
             ELSE [i \in 1..(MacHexDigits + MacHexDigits \div 2 - 1) |->
                     IF i % 3 = 0 THEN ":"
                     ELSE UpperChar(mac_clean[2 * (i \div 3) + (i % 3)])]

(***************************************************************************)
(* Input domains                                                           *)
(***************************************************************************)
\* Canonical MAC whose last digit is d.
Mac(d) == <<"0", "2", ":", "0", "0", ":", "0", "0", ":",
            "0", "0", ":", "0", "0", ":", "0", d>>

MACS == {Mac("A"), Mac("B"), Mac("C")}

\* What a caller may hand over as MAC text: canonical, lower case with
\* dashes, too short, missing.
RAWMACS ==
    MACS \cup {[i \in 1..MacMatchLen |->
                  IF Mac("A")[i] = ":" THEN "-" ELSE LowerChar(Mac("A")[i])],
               <<"0", "2", ":", "0", "0">>,
               None}

ALIASES == {"home", "lab"}

HOSTNAMES == {None, <<" ">>, <<"p">>, <<" ", "P">>, <<"q">>}

IPV4S == {None, <<"5">>, <<"9">>}

(***************************************************************************)
(* DeviceRegistry (nx_controller/__init__.py).  self.devices is a dict in  *)
(* insertion order: a sequence of records, one per key.                    *)
(***************************************************************************)
NoErr == "ok"
ErrInvalidMac == "Invalid MAC provided"
ErrAliasNotFound == "Alias not found"
ErrPrimaryNotFound == "Primary MAC not found"
ErrAliasMismatch == "Alias mismatch for primary device"

\* Position of key in the dict, 0 when absent.
KeyIdx(devs, key) ==
    LET S == {i \in 1..Len(devs) : devs[i].primary = key}
    IN  IF S = {} THEN 0 ELSE SeqMin(S)

_normalize_hostname(hostname) ==
    IF ~Truthy(hostname) THEN None
    ELSE LET normalized == Strip(hostname)
         IN  IF Lower(normalized) = <<>> THEN None ELSE Lower(normalized)

get_primary_for_mac(devs, alias, mac) ==
    LET S == {i \in 1..Len(devs) : devs[i].alias = alias /\ InSeq(mac, devs[i].macs)}
    IN  IF S = {} THEN None ELSE devs[SeqMin(S)].primary

\* A slip: an absent hint clears the stored value.
_update_metadata_clears(info, hostname, ipv4) ==
    [info EXCEPT !.hostname = _normalize_hostname(hostname),
                 !.ipv4 = IF Truthy(ipv4) THEN ipv4 ELSE None]

_update_metadata(info, hostname, ipv4) ==
    LET normalized_hostname == _normalize_hostname(hostname)
    IN  [info EXCEPT
           !.hostname = IF Truthy(normalized_hostname) THEN normalized_hostname ELSE @,
           !.ipv4 = IF Truthy(ipv4) THEN ipv4 ELSE @]

\* self.devices[mac] = value: an existing key keeps its position.
DictSet(devs, key, value) ==
    IF KeyIdx(devs, key) = 0 THEN Append(devs, value)
    ELSE [devs EXCEPT ![KeyIdx(devs, key)] = value]

\* A slip: setdefault instead of assignment, a record under the key stays.
ensure_device_keeps_existing_key(devs, alias, mac, hostname, ipv4) ==
    LET existing == get_primary_for_mac(devs, alias, mac)
    IN  IF Truthy(existing) THEN [devices |-> devs, ret |-> existing]
        ELSE IF KeyIdx(devs, mac) # 0 THEN [devices |-> devs, ret |-> mac]
        ELSE [devices |->
                Append(devs,
                       _update_metadata([primary |-> mac, alias |-> alias,
                                         macs |-> <<mac>>,
                                         hostname |-> None, ipv4 |-> None],
                                        hostname, ipv4)),
              ret |-> mac]

ensure_device(devs, alias, mac, hostname, ipv4) ==
    LET existing == get_primary_for_mac(devs, alias, mac)
    IN  IF Truthy(existing) THEN [devices |-> devs, ret |-> existing]
        ELSE [devices |->
                DictSet(devs, mac,
                        _update_metadata([primary |-> mac, alias |-> alias,
                                          macs |-> <<mac>>,
                                          hostname |-> None, ipv4 |-> None],
                                         hostname, ipv4)),
              ret |-> mac]

\* A slip: alt_mac is appended without looking whether it is a member.
AbsorbAlt_always_appends(devs, alias, primary_mac, alt_mac) ==
    LET pi == KeyIdx(devs, primary_mac)
        alt_primary == get_primary_for_mac(devs, alias, alt_mac)
        merged ==
          IF Truthy(alt_primary) /\ alt_primary # primary_mac
          THEN LET ai == KeyIdx(devs, alt_primary)
                   alt_info == devs[ai]
                   primary == _update_metadata(
                                 [devs[pi] EXCEPT !.macs = ExtendNew(@, alt_info.macs)],
                                 alt_info.hostname, alt_info.ipv4)
               IN  RemoveAt([devs EXCEPT ![pi] = primary], ai)
          ELSE devs
    IN  [merged EXCEPT ![KeyIdx(merged, primary_mac)].macs = Append(@, alt_mac)]

\* add_mac once the primary is found under the alias: a record of the alias
\* that holds alt_mac is popped and merged, then alt_mac is added.
AbsorbAlt(devs, alias, primary_mac, alt_mac) ==
    LET pi == KeyIdx(devs, primary_mac)
        alt_primary == get_primary_for_mac(devs, alias, alt_mac)
        merged ==
          IF Truthy(alt_primary) /\ alt_primary # primary_mac
          THEN LET ai == KeyIdx(devs, alt_primary)
                   alt_info == devs[ai]
                   primary == _update_metadata(
                                 [devs[pi] EXCEPT !.macs = ExtendNew(@, alt_info.macs)],
                                 alt_info.hostname, alt_info.ipv4)
               IN  RemoveAt([devs EXCEPT ![pi] = primary], ai)
          ELSE devs
        pj == KeyIdx(merged, primary_mac)
    IN  IF InSeq(alt_mac, merged[pj].macs) THEN merged
        ELSE [merged EXCEPT ![pj].macs = Append(@, alt_mac)]

\* A slip: the alias is checked after alt_mac was added to the primary.
add_mac_checks_alias_late(devs, alias, primary_mac, alt_mac) ==
    LET pi == KeyIdx(devs, primary_mac)
    IN  IF pi = 0 THEN [devices |-> devs, err |-> ErrPrimaryNotFound]
        ELSE IF devs[pi].alias # alias
        THEN [devices |-> [devs EXCEPT ![pi].macs = Append(@, alt_mac)],
              err |-> ErrAliasMismatch]
        ELSE [devices |-> AbsorbAlt(devs, alias, primary_mac, alt_mac), err |-> NoErr]

\* The registry and the error raised ("ok": none) when add_mac ends.
add_mac(devs, alias, primary_mac, alt_mac) ==
    LET pi == KeyIdx(devs, primary_mac)
    IN  IF pi = 0 THEN [devices |-> devs, err |-> ErrPrimaryNotFound]
        ELSE IF devs[pi].alias # alias THEN [devices |-> devs, err |-> ErrAliasMismatch]
        ELSE [devices |-> AbsorbAlt(devs, alias, primary_mac, alt_mac), err |-> NoErr]

\* A slip: a record without stored hostname no longer matches a sighting
\* that has one.
IdentityReturns_needs_stored_hostname(info, alias, target_hostname, ipv4) ==
    IF info.alias # alias THEN FALSE
    ELSE IF Truthy(target_hostname)
         THEN /\ info.hostname = target_hostname
              /\ Truthy(ipv4)
              /\ ~(Truthy(info.ipv4) /\ info.ipv4 # ipv4)
         ELSE Truthy(ipv4) /\ ~Truthy(info.hostname) /\ info.ipv4 = ipv4

\* A slip: a sighting without hostname claims a record by ipv4 alone.
IdentityReturns_bare_ip_ignores_hostname(info, alias, target_hostname, ipv4) ==
    IF info.alias # alias THEN FALSE
    ELSE IF Truthy(target_hostname)
         THEN /\ ~(Truthy(info.hostname) /\ info.hostname # target_hostname)
              /\ Truthy(ipv4)
              /\ ~(Truthy(info.ipv4) /\ info.ipv4 # ipv4)
         ELSE Truthy(ipv4) /\ info.ipv4 = ipv4

\* One iteration of find_by_identity's loop over a record: TRUE when the
\* iteration returns the record, FALSE when it moves on to the next one.
IdentityReturns(info, alias, target_hostname, ipv4) ==
    IF info.alias # alias THEN FALSE
    ELSE LET stored_hostname == _normalize_hostname(info.hostname)
             stored_ipv4 == info.ipv4
         IN  IF Truthy(target_hostname)
             THEN IF Truthy(stored_hostname) /\ stored_hostname # target_hostname
                  THEN FALSE
                  ELSE IF Truthy(ipv4)
                       THEN ~(Truthy(stored_ipv4) /\ stored_ipv4 # ipv4)
                       ELSE FALSE
             ELSE IF Truthy(ipv4)
                  THEN IF Truthy(stored_hostname) THEN FALSE
                       ELSE stored_ipv4 = ipv4
                  ELSE FALSE

\* A slip: the loop does not stop at the first record that matches.
find_by_identity_last_match(devs, alias, hostname, ipv4) ==
    IF ~Truthy(hostname) /\ ~Truthy(ipv4) THEN None
    ELSE LET target_hostname == _normalize_hostname(hostname)
             S == {i \in 1..Len(devs) :
                     IdentityReturns(devs[i], alias, target_hostname, ipv4)}
         IN  IF S = {} THEN None
             ELSE devs[CHOOSE i \in S : \A j \in S : j <= i].primary

find_by_identity(devs, alias, hostname, ipv4) ==
    IF ~Truthy(hostname) /\ ~Truthy(ipv4) THEN None
    ELSE LET target_hostname == _normalize_hostname(hostname)
             S == {i \in 1..Len(devs) :
                     IdentityReturns(devs[i], alias, target_hostname, ipv4)}
         IN  IF S = {} THEN None ELSE devs[SeqMin(S)].primary

map_mac(devs, alias, mac, hostname, ipv4) ==
    LET existing_primary == get_primary_for_mac(devs, alias, mac)
        identity_primary == find_by_identity(devs, alias, hostname, ipv4)
    IN  IF Truthy(existing_primary)
        THEN [devices |->
                [devs EXCEPT ![KeyIdx(devs, existing_primary)] =
                               _update_metadata(@, hostname, ipv4)],
              primary |-> existing_primary, is_new |-> FALSE]
        ELSE IF Truthy(identity_primary)
        THEN LET added == add_mac(devs, alias, identity_primary, mac).devices
             IN  [devices |->
                     [added EXCEPT ![KeyIdx(added, identity_primary)] =
                                     _update_metadata(@, hostname, ipv4)],
                  primary |-> identity_primary, is_new |-> TRUE]
        ELSE [devices |-> ensure_device(devs, alias, mac, hostname, ipv4).devices,
              primary |-> ensure_device(devs, alias, mac, hostname, ipv4).ret,
              is_new |-> TRUE]

(***************************************************************************)
(* Known-devices store (nx_controller/identity.py): devices is a dict in   *)
(* insertion order of primary -> macs, pending a list.                     *)
(***************************************************************************)
_find_primary_mac(mac, known_devices) ==
    LET normalized_mac == api_normalize_mac(mac)
        devs == known_devices.devices
        S == {i \in 1..Len(devs) : InSeq(normalized_mac, devs[i].macs)}
    IN  IF ~Truthy(normalized_mac) THEN None
        ELSE IF KeyIdx(devs, normalized_mac) # 0 THEN normalized_mac
        ELSE IF S # {} THEN devs[SeqMin(S)].primary
        ELSE None

\* The loop of _register_secondary_mac over list(devices.items()): the new
\* MAC leaves every other record, and a record left empty is popped.
StripFromOthers(devs, normalized_primary, normalized_new) ==
    LET hit(info) == info.primary # normalized_primary /\ InSeq(normalized_new, info.macs)
        stripped == [i \in 1..Len(devs) |->
                       IF hit(devs[i])
                       THEN [devs[i] EXCEPT !.macs = Without(@, normalized_new)]
                       ELSE devs[i]]
        popped == {i \in 1..Len(devs) : hit(devs[i]) /\ stripped[i].macs = <<>>}
        keep == {i \in 1..Len(devs) : i \notin popped}
        \* the position in devs of the k-th record kept
        nth(k) == CHOOSE i \in keep : Cardinality({j \in keep : j <= i}) = k
    IN  [k \in 1..Cardinality(keep) |-> stripped[nth(k)]]

\* A slip: the associated MACs stay in pending.
_register_secondary_mac_keeps_pending(primary_mac, new_mac, known_devices) ==
    LET normalized_primary == api_normalize_mac(primary_mac)
        normalized_new == api_normalize_mac(new_mac)
    IN  IF ~Truthy(normalized_primary) \/ ~Truthy(normalized_new)
        THEN [known |-> known_devices, changed |-> FALSE]
        ELSE
          LET d0 == known_devices.devices
              pending == known_devices.pending
              d1 == IF KeyIdx(d0, normalized_primary) = 0
                    THEN Append(d0, [primary |-> normalized_primary,
                                     macs |-> <<normalized_primary>>])
                    ELSE d0
              pi == KeyIdx(d1, normalized_primary)
              d2 == IF InSeq(normalized_primary, d1[pi].macs) THEN d1
                    ELSE [d1 EXCEPT ![pi].macs = <<normalized_primary>> \o @]
              d3 == IF InSeq(normalized_new, d2[pi].macs) THEN d2
                    ELSE [d2 EXCEPT ![pi].macs = Append(@, normalized_new)]
              d4 == StripFromOthers(d3, normalized_primary, normalized_new)
          IN  [known |-> [devices |-> d4, pending |-> pending],
               changed |-> d3 # d1 \/ d4 # d3]

_register_secondary_mac(primary_mac, new_mac, known_devices) ==
    LET normalized_primary == api_normalize_mac(primary_mac)
        normalized_new == api_normalize_mac(new_mac)
    IN  IF ~Truthy(normalized_primary) \/ ~Truthy(normalized_new)
        THEN [known |-> known_devices, changed |-> FALSE]
        ELSE
          LET d0 == known_devices.devices
              pending == known_devices.pending
              \* devices.setdefault(normalized_primary, {"macs": [normalized_primary]})
              d1 == IF KeyIdx(d0, normalized_primary) = 0
                    THEN Append(d0, [primary |-> normalized_primary,
                                     macs |-> <<normalized_primary>>])
                    ELSE d0
              pi == KeyIdx(d1, normalized_primary)
              d2 == IF InSeq(normalized_primary, d1[pi].macs) THEN d1
                    ELSE [d1 EXCEPT ![pi].macs = <<normalized_primary>> \o @]
              d3 == IF InSeq(normalized_new, d2[pi].macs) THEN d2
                    ELSE [d2 EXCEPT ![pi].macs = Append(@, normalized_new)]
              p1 == RemoveFirst(pending, normalized_new)
              p2 == RemoveFirst(p1, normalized_primary)
              d4 == StripFromOthers(d3, normalized_primary, normalized_new)
          IN  [known |-> [devices |-> d4, pending |-> p2],
               changed |-> d3 # d1 \/ p2 # pending \/ d4 # d3]

\* sorted(set) of MAC strings is determined by the set: the set stands for it.
LowerSet(macs) == {Lower(macs[i]) : i \in 1..Len(macs)}

\* consolidated[primary_key] = payload / _merge_device_entries(existing, payload),
\* for the mac_addresses of the payload.
ConsolidatedPut(consolidated, primary_key, mac_candidates) ==
    LET S == {i \in 1..Len(consolidated) : consolidated[i].primary_mac = primary_key}
    IN  IF S = {}
        THEN Append(consolidated, [primary_mac |-> primary_key,
                                   mac_addresses |-> mac_candidates])
        ELSE [consolidated EXCEPT
                ![SeqMin(S)].mac_addresses = @ \cup mac_candidates]

\* A slip: bootstrap is looked at again for every item, so it ends with the
\* first registration.
ConsolidateOne_rechecks_bootstrap(acc, device, bootstrap) ==
    LET normalized_mac == api_normalize_mac(device.mac)
        found == _find_primary_mac(normalized_mac, acc.known)
        still == bootstrap /\ acc.known.devices = <<>>
        registered == _register_secondary_mac(normalized_mac, normalized_mac, acc.known).known
        known1 == IF Truthy(found) THEN acc.known ELSE registered
        primary_mac == IF Truthy(found) THEN found ELSE normalized_mac
        pidx == KeyIdx(known1.devices, primary_mac)
        known_macs == IF pidx = 0 THEN <<>> ELSE known1.devices[pidx].macs
        mac_candidates == {Lower(primary_mac)} \cup LowerSet(known_macs)
                             \cup LowerSet(device.mac_addresses)
    IN  IF ~Truthy(normalized_mac) THEN acc
        ELSE IF ~Truthy(found) /\ ~still
        THEN IF InSeq(normalized_mac, acc.known.pending) THEN acc
             ELSE [acc EXCEPT !.known.pending = Append(@, normalized_mac),
                              !.dirty = TRUE]
        ELSE [known |-> known1,
              consolidated |-> ConsolidatedPut(acc.consolidated, Lower(primary_mac),
                                               mac_candidates),
              dirty |-> acc.dirty \/ ~Truthy(found)]

\* A slip: an unresolved MAC is appended to pending without looking whether
\* it is there.
ConsolidateOne_appends_pending_again(acc, device, bootstrap) ==
    LET normalized_mac == api_normalize_mac(device.mac)
        found == _find_primary_mac(normalized_mac, acc.known)
        registered == _register_secondary_mac(normalized_mac, normalized_mac, acc.known).known
        known1 == IF Truthy(found) THEN acc.known ELSE registered
        primary_mac == IF Truthy(found) THEN found ELSE normalized_mac
        pidx == KeyIdx(known1.devices, primary_mac)
        known_macs == IF pidx = 0 THEN <<>> ELSE known1.devices[pidx].macs
        mac_candidates == {Lower(primary_mac)} \cup LowerSet(known_macs)
                             \cup LowerSet(device.mac_addresses)
    IN  IF ~Truthy(normalized_mac) THEN acc
        ELSE IF ~Truthy(found) /\ ~bootstrap
        THEN [acc EXCEPT !.known.pending = Append(@, normalized_mac),
                         !.dirty = TRUE]
        ELSE [known |-> known1,
              consolidated |-> ConsolidatedPut(acc.consolidated, Lower(primary_mac),
                                               mac_candidates),
              dirty |-> acc.dirty \/ ~Truthy(found)]

\* A slip: a registration in bootstrap mode does not set dirty.
ConsolidateOne_bootstrap_not_dirty(acc, device, bootstrap) ==
    LET normalized_mac == api_normalize_mac(device.mac)
        found == _find_primary_mac(normalized_mac, acc.known)
        registered == _register_secondary_mac(normalized_mac, normalized_mac, acc.known).known
        known1 == IF Truthy(found) THEN acc.known ELSE registered
        primary_mac == IF Truthy(found) THEN found ELSE normalized_mac
        pidx == KeyIdx(known1.devices, primary_mac)
        known_macs == IF pidx = 0 THEN <<>> ELSE known1.devices[pidx].macs
        mac_candidates == {Lower(primary_mac)} \cup LowerSet(known_macs)
                             \cup LowerSet(device.mac_addresses)
    IN  IF ~Truthy(normalized_mac) THEN acc
        ELSE IF ~Truthy(found) /\ ~bootstrap
        THEN IF InSeq(normalized_mac, acc.known.pending) THEN acc
             ELSE [acc EXCEPT !.known.pending = Append(@, normalized_mac),
                              !.dirty = TRUE]
        ELSE [known |-> known1,
              consolidated |-> ConsolidatedPut(acc.consolidated, Lower(primary_mac),
                                               mac_candidates),
              dirty |-> acc.dirty]

\* The body of consolidate_devices' loop for one item of devices.items().
ConsolidateOne(acc, device, bootstrap) ==
    LET normalized_mac == api_normalize_mac(device.mac)
        found == _find_primary_mac(normalized_mac, acc.known)
        registered == _register_secondary_mac(normalized_mac, normalized_mac, acc.known).known
        known1 == IF Truthy(found) THEN acc.known ELSE registered
        primary_mac == IF Truthy(found) THEN found ELSE normalized_mac
        pidx == KeyIdx(known1.devices, primary_mac)
        known_macs == IF pidx = 0 THEN <<>> ELSE known1.devices[pidx].macs
        mac_candidates == {Lower(primary_mac)} \cup LowerSet(known_macs)
                             \cup LowerSet(device.mac_addresses)
    IN  IF ~Truthy(normalized_mac) THEN acc
        ELSE IF ~Truthy(found) /\ ~bootstrap
        THEN IF InSeq(normalized_mac, acc.known.pending) THEN acc
             ELSE [acc EXCEPT !.known.pending = Append(@, normalized_mac),
                              !.dirty = TRUE]
        ELSE [known |-> known1,
              consolidated |-> ConsolidatedPut(acc.consolidated, Lower(primary_mac),
                                               mac_candidates),
              dirty |-> acc.dirty \/ ~Truthy(found)]

RECURSIVE ConsolidateLoop(_, _, _)
ConsolidateLoop(acc, items, bootstrap) ==
    IF items = <<>> THEN acc
    ELSE ConsolidateLoop(ConsolidateOne(acc, Head(items), bootstrap), Tail(items),
                         bootstrap)

consolidate_devices(devices_in, known_devices) ==
    ConsolidateLoop([known |-> known_devices, consolidated |-> <<>>, dirty |-> FALSE],
                    devices_in,
                    known_devices.devices = <<>> /\ known_devices.pending = <<>>)

\* store.async_load() returned None: "or {}" makes it the document without
\* keys, whose "devices" and "pending" read as empty.
NoDocument == [present |-> FALSE, devices |-> <<>>, pending |-> <<>>]

\* [_normalize_mac(mac) for mac in macs], the falsy results left out.
NormalizedMacs(macs) ==
    SelectSeq([i \in 1..Len(macs) |-> api_normalize_mac(macs[i])], Truthy)

\* The loop of _load_known_devices over the items of the stored devices.
RECURSIVE LoadDevices(_, _)
LoadDevices(normalized_devices, items) ==
    IF items = <<>> THEN normalized_devices
    ELSE LET normalized_primary == api_normalize_mac(Head(items).primary)
             listed == ExtendNew(<<>>, NormalizedMacs(Head(items).macs))
             macs == IF InSeq(normalized_primary, listed) THEN listed
                     ELSE <<normalized_primary>> \o listed
         IN  LoadDevices(IF ~Truthy(normalized_primary) THEN normalized_devices
                         ELSE DictSet(normalized_devices, normalized_primary,
                                      [primary |-> normalized_primary, macs |-> macs]),
                         Tail(items))

_load_known_devices(stored_doc) ==
    LET normalized_devices ==
            LoadDevices(<<>>, IF stored_doc.present THEN stored_doc.devices ELSE <<>>)
        listed == NormalizedMacs(IF stored_doc.present THEN stored_doc.pending
                                 ELSE <<>>)
        pending == ExtendNew(<<>>, SelectSeq(listed, LAMBDA normalized_mac :
                                       KeyIdx(normalized_devices, normalized_mac) = 0))
    IN  [devices |-> normalized_devices, pending |-> pending]

\* The document _save_known_devices hands to the Store.
_save_known_devices(known_devices) ==
    [present |-> TRUE, devices |-> known_devices.devices,
     pending |-> known_devices.pending]

\* DeviceRegistry.async_load: self.devices = data.get("devices", {}), as
\* stored.  stored_devices is the "devices" of the registry document, empty
\* when there is no document.
async_load(stored_devices) == stored_devices

(***************************************************************************)
(* NxControllerCoordinator (nx_controller/__init__.py): one update cycle.  *)
(* clients and coordinator.data are dicts in insertion order of            *)
(* primary -> NxClient: sequences of records.                              *)
(***************************************************************************)
\* NxClient(primary_mac=..., alias=..., macs=..., online=...): the other
\* fields take the dataclass defaults.
NxClient(primary_mac, alias, macs, online) ==
    [primary_mac |-> primary_mac, alias |-> alias, macs |-> macs,
     hostname |-> None, ipv4 |-> None, ipv6 |-> None, interface |-> None,
     connection_type |-> None, rx_bytes |-> None, tx_bytes |-> None,
     signal_dbm |-> None, last_seen |-> None, dhcp_source |-> None,
     online |-> online]

\* Position of a primary in a dict of clients, 0 when absent.
ClientIdx(clients, primary) ==
    LET S == {i \in 1..Len(clients) : clients[i].primary_mac = primary}
    IN  IF S = {} THEN 0 ELSE SeqMin(S)

\* utcnow_iso() in the cycle that is the n-th call: the clock only moves on.
utcnow_iso(n) == <<ToString(n)>>

Wired == <<"w", "i", "r", "e", "d">>
Wireless == <<"w", "i", "r", "e", "l", "e", "s", "s">>

\* interface.startswith("wl")
StartsWithWl(interface) ==
    Len(interface) >= Len(<<"w", "l">>) /\ SubSeq(interface, 1, Len(<<"w", "l">>)) = <<"w", "l">>

\* The data dict that _async_update_data hands to register_client for an
\* entry of one of its five sources; a key the dict lacks is None here.
SightingData(entry, now) ==
    LET blank == [hostname |-> None, ipv4 |-> None, ipv6 |-> None,
                  interface |-> None, connection_type |-> None,
                  signal_dbm |-> None, dhcp_source |-> None,
                  online |-> FALSE, last_seen |-> now]
    IN  CASE entry.from \in {"hosts", "dhcp_v4"} ->
               [blank EXCEPT !.hostname = entry.hostname, !.ipv4 = entry.ip,
                             !.dhcp_source = entry.source]
          [] entry.from = "dhcp_v6" ->
               [blank EXCEPT !.hostname = entry.hostname, !.ipv6 = entry.ipv6,
                             !.dhcp_source = entry.source]
          [] entry.from = "neighbors" ->
               [blank EXCEPT !.ipv4 = entry.ip, !.interface = entry.interface,
                             !.connection_type =
                                 IF Truthy(entry.interface) /\ ~StartsWithWl(entry.interface)
                                 THEN Wired ELSE None,
                             !.online = TRUE]
          [] entry.from = "wifi" ->
               [blank EXCEPT !.interface = entry.interface,
                             !.connection_type = Wireless,
                             !.signal_dbm = entry.signal,
                             !.online = TRUE]

\* A slip: the event is fired for every sighting, new or not.
register_client_fires_always(st, previous_clients, alias, mac, d) ==
    LET stripped == Strip(IF Truthy(d.hostname) THEN d.hostname ELSE <<>>)
        \* the part after map_mac; r is what the registry answered
        registered(normalized_mac, hostname, ipv4, r) ==
            LET primary == r.primary
                at == ClientIdx(st.clients, primary)
                pidx == ClientIdx(previous_clients, primary)
                \* clients.get(primary), else replace(previous) with a copy
                \* of its macs, else a new NxClient with no macs
                c0 == IF at # 0 THEN st.clients[at]
                      ELSE IF pidx # 0 THEN previous_clients[pidx]
                      ELSE NxClient(primary, alias, {}, FALSE)
                set(field, value) == IF Truthy(value) THEN value ELSE c0[field]
                client == [c0 EXCEPT
                     !.macs = @ \cup {normalized_mac},
                     !.hostname = set("hostname", hostname),
                     !.ipv4 = set("ipv4", ipv4),
                     !.ipv6 = set("ipv6", d.ipv6),
                     !.interface = set("interface", d.interface),
                     !.connection_type = set("connection_type", d.connection_type),
                     !.signal_dbm = IF d.signal_dbm # None THEN d.signal_dbm ELSE @,
                     !.dhcp_source = set("dhcp_source", d.dhcp_source),
                     !.online = d.online,
                     !.last_seen = set("last_seen", d.last_seen)]
                event == [alias |-> alias, mac |-> normalized_mac, ipv4 |-> client.ipv4,
                          ipv6 |-> client.ipv6, hostname |-> client.hostname,
                          connection_type |-> client.connection_type]
            IN  [devices |-> r.devices,
                 clients |-> IF at # 0 THEN [st.clients EXCEPT ![at] = client]
                             ELSE Append(st.clients, client),
                 fired |-> Append(st.fired, event)]
        \* registry.map_mac is called once, with the values computed before it
        resolved(normalized_mac, hostname, ipv4) ==
            CHOOSE out \in {registered(normalized_mac, hostname, ipv4, r) :
                              r \in {map_mac(st.devices, alias, normalized_mac,
                                             hostname, ipv4)}} : TRUE
    IN  CHOOSE out \in
          {IF ~Truthy(normalized_mac) THEN st
           ELSE resolved(normalized_mac, hostname, ipv4) :
             normalized_mac \in {normalize_mac(mac)},
             hostname \in {IF stripped = <<>> THEN None ELSE stripped},
             \* data.get("ipv4") or data.get("ip"): no source's data has "ip"
             ipv4 \in {IF Truthy(d.ipv4) THEN d.ipv4 ELSE None}} : TRUE

\* register_client(mac, data) of one cycle: st holds the registry, the
\* clients dict built so far and the events fired so far in this cycle.
\* rx_bytes / tx_bytes are in no source's data; online is in every source's.
register_client(st, previous_clients, alias, mac, d) ==
    LET stripped == Strip(IF Truthy(d.hostname) THEN d.hostname ELSE <<>>)
        \* the part after map_mac; r is what the registry answered
        registered(normalized_mac, hostname, ipv4, r) ==
            LET primary == r.primary
                at == ClientIdx(st.clients, primary)
                pidx == ClientIdx(previous_clients, primary)
                \* clients.get(primary), else replace(previous) with a copy
                \* of its macs, else a new NxClient with no macs
                c0 == IF at # 0 THEN st.clients[at]
                      ELSE IF pidx # 0 THEN previous_clients[pidx]
                      ELSE NxClient(primary, alias, {}, FALSE)
                set(field, value) == IF Truthy(value) THEN value ELSE c0[field]
                client == [c0 EXCEPT
                     !.macs = @ \cup {normalized_mac},
                     !.hostname = set("hostname", hostname),
                     !.ipv4 = set("ipv4", ipv4),
                     !.ipv6 = set("ipv6", d.ipv6),
                     !.interface = set("interface", d.interface),
                     !.connection_type = set("connection_type", d.connection_type),
                     !.signal_dbm = IF d.signal_dbm # None THEN d.signal_dbm ELSE @,
                     !.dhcp_source = set("dhcp_source", d.dhcp_source),
                     !.online = d.online,
                     !.last_seen = set("last_seen", d.last_seen)]
                event == [alias |-> alias, mac |-> normalized_mac, ipv4 |-> client.ipv4,
                          ipv6 |-> client.ipv6, hostname |-> client.hostname,
                          connection_type |-> client.connection_type]
            IN  [devices |-> r.devices,
                 clients |-> IF at # 0 THEN [st.clients EXCEPT ![at] = client]
                             ELSE Append(st.clients, client),
                 fired |-> IF r.is_new THEN Append(st.fired, event) ELSE st.fired]
        \* registry.map_mac is called once, with the values computed before it
        resolved(normalized_mac, hostname, ipv4) ==
            CHOOSE out \in {registered(normalized_mac, hostname, ipv4, r) :
                              r \in {map_mac(st.devices, alias, normalized_mac,
                                             hostname, ipv4)}} : TRUE
    IN  CHOOSE out \in
          {IF ~Truthy(normalized_mac) THEN st
           ELSE resolved(normalized_mac, hostname, ipv4) :
             normalized_mac \in {normalize_mac(mac)},
             hostname \in {IF stripped = <<>> THEN None ELSE stripped},
             \* data.get("ipv4") or data.get("ip"): no source's data has "ip"
             ipv4 \in {IF Truthy(d.ipv4) THEN d.ipv4 ELSE None}} : TRUE

\* The five loops of _async_update_data over the entries of the sources, in
\* the order hosts, dhcp_v4, dhcp_v6, neighbors, wifi_clients.  (The state
\* after the first entry is bound as a value before the rest is registered.)
RECURSIVE RegisterAll(_, _, _, _, _)
RegisterAll(st, previous_clients, alias, entries, now) ==
    IF entries = <<>> THEN st
    ELSE CHOOSE out \in
           {RegisterAll(next, previous_clients, alias, Tail(entries), now) :
              next \in {register_client(st, previous_clients, alias, Head(entries).mac,
                                        SightingData(Head(entries), now))}} : TRUE

\* A slip: a device carried forward keeps the online flag it had.
CarryForward_keeps_online(clients, previous_clients, devs, alias) ==
    LET missing == SelectSeq(devs, LAMBDA info :
                       info.alias = alias /\ ClientIdx(clients, info.primary) = 0)
        carried(info) ==
            LET pidx == ClientIdx(previous_clients, info.primary)
            IN  IF pidx # 0 THEN previous_clients[pidx]
                ELSE NxClient(info.primary, alias,
                              {info.macs[k] : k \in 1..Len(info.macs)}, FALSE)
    IN  clients \o [i \in 1..Len(missing) |-> carried(missing[i])]

\* A slip: only a primary that was in the previous output is carried forward.
CarryForward_previous_only(clients, previous_clients, devs, alias) ==
    LET missing == SelectSeq(devs, LAMBDA info :
                       /\ info.alias = alias
                       /\ ClientIdx(clients, info.primary) = 0
                       /\ ClientIdx(previous_clients, info.primary) # 0)
        carried(info) ==
            [previous_clients[ClientIdx(previous_clients, info.primary)]
               EXCEPT !.online = FALSE]
    IN  clients \o [i \in 1..Len(missing) |-> carried(missing[i])]

\* The loop over registry.devices after the save: a primary of the alias
\* that no sighting resolved to is added from the previous output with
\* online False, or as a new NxClient with the registry's macs.
CarryForward(clients, previous_clients, devs, alias) ==
    LET missing == SelectSeq(devs, LAMBDA info :
                       info.alias = alias /\ ClientIdx(clients, info.primary) = 0)
        carried(info) ==
            LET pidx == ClientIdx(previous_clients, info.primary)
            IN  IF pidx # 0 THEN [previous_clients[pidx] EXCEPT !.online = FALSE]
                ELSE NxClient(info.primary, alias,
                              {info.macs[k] : k \in 1..Len(info.macs)}, FALSE)
    IN  clients \o [i \in 1..Len(missing) |-> carried(missing[i])]

\* A slip: the neighbor and wifi loops run before the DHCP loops.
_async_update_data_sightings_first(devs, previous_clients, alias, entries, now) ==
    CHOOSE out \in
      {[devices |-> st.devices,
        seen |-> {st.clients[i].primary_mac : i \in 1..Len(st.clients)},
        clients |-> CarryForward(st.clients, previous_clients, st.devices, alias),
        fired |-> st.fired] :
         st \in {RegisterAll([devices |-> devs, clients |-> <<>>, fired |-> <<>>],
                             previous_clients, alias,
                             SelectSeq(entries, LAMBDA e : e.from \in {"neighbors", "wifi"})
                               \o SelectSeq(entries, LAMBDA e : e.from \notin {"neighbors", "wifi"}),
                             now)}} : TRUE

\* _async_update_data once the sources have answered.
_async_update_data(devs, previous_clients, alias, entries, now) ==
    CHOOSE out \in
      {[devices |-> st.devices,
        seen |-> {st.clients[i].primary_mac : i \in 1..Len(st.clients)},
        clients |-> CarryForward(st.clients, previous_clients, st.devices, alias),
        fired |-> st.fired] :
         st \in {RegisterAll([devices |-> devs, clients |-> <<>>, fired |-> <<>>],
                             previous_clients, alias, entries, now)}} : TRUE

(***************************************************************************)
(* _DeviceAggregator (nx_controller/api.py), as fetch_interface_devices    *)
(* uses it without DHCP configuration (collect_dhcp=False), and            *)
(* _merge_device_entries (nx_controller/identity.py).  _entries and        *)
(* _endpoint_to_primary are dicts in insertion order: sequences of         *)
(* records.  A sorted list of a set of strings is the set.                 *)
(***************************************************************************)
\* The characters of interface names and addresses, in code point order.
CharOrder ==
    <<".", "0", "1", "2", "3", "4", "5", "6", "7", "8", "9", ":",
      "a", "b", "c", "d", "e", "f", "g", "h", "i", "j", "k", "l", "m",
      "n", "o", "p", "q", "r", "s", "t", "u", "v", "w", "x", "y", "z">>

Ord(c) == CHOOSE i \in 1..Len(CharOrder) : CharOrder[i] = c

\* a < b for two str
RECURSIVE StrLess(_, _)
StrLess(a, b) ==
    IF b = <<>> THEN FALSE
    ELSE IF a = <<>> THEN TRUE
    ELSE IF Head(a) = Head(b) THEN StrLess(Tail(a), Tail(b))
    ELSE Ord(Head(a)) < Ord(Head(b))

\* ipaddress.ip_address(ip_value).version, 0 for ValueError: exact for
\* dotted quads of digits and for text of hex digits with colons.
IpVersion(ip_value) ==
    LET digits == {"0", "1", "2", "3", "4", "5", "6", "7", "8", "9"}
        dots == {i \in 1..Len(ip_value) : ip_value[i] = "."}
    IN  IF /\ Cardinality(dots) = 3
           /\ \A i \in 1..Len(ip_value) : ip_value[i] \in digits \cup {"."}
           /\ \A i \in dots : i > 1 /\ i < Len(ip_value) /\ (i + 1) \notin dots
        THEN 4
        ELSE IF /\ \E i \in 1..Len(ip_value) : ip_value[i] = ":"
                /\ \A i \in 1..Len(ip_value) : IsHex(ip_value[i]) \/ ip_value[i] = ":"
        THEN 6
        ELSE 0

AggregatedDevice(primary_mac) ==
    [primary_mac |-> primary_mac, mac_addresses |-> {}, interfaces |-> {},
     radios |-> {}, ipv4_addresses |-> {}, ipv6_addresses |-> {},
     host |-> None, state |-> None, name |-> None, connections |-> <<>>]

\* _endpoint_to_primary.get(key): None when absent.
EndpointGet(endpoint_to_primary, key) ==
    LET S == {i \in 1..Len(endpoint_to_primary) : endpoint_to_primary[i].key = key}
    IN  IF S = {} THEN None ELSE endpoint_to_primary[SeqMin(S)].primary

\* _endpoint_to_primary.setdefault(key, primary)
EndpointSetDefault(endpoint_to_primary, key, primary) ==
    IF EndpointGet(endpoint_to_primary, key) # None THEN endpoint_to_primary
    ELSE Append(endpoint_to_primary, [key |-> key, primary |-> primary])

\* _attach_ip(entry, ip_value)
_attach_ip(entry, ip_value) ==
    IF ~Truthy(ip_value) THEN entry
    ELSE IF IpVersion(ip_value) = 0 THEN [entry EXCEPT !.host = ip_value]
    ELSE IF IpVersion(ip_value) = 4
    THEN [entry EXCEPT !.ipv4_addresses = @ \cup {ip_value}]
    ELSE [entry EXCEPT !.ipv6_addresses = @ \cup {ip_value}]

\* A slip: the IP is looked up before the MAC.
add_device_ip_first(agg, wifi_radios, device) ==
    LET mac == Lower(device.mac)
        by_mac == EndpointGet(agg.endpoint_to_primary, mac)
        by_ip == IF Truthy(device.ip) THEN EndpointGet(agg.endpoint_to_primary, device.ip)
                 ELSE None
        primary_mac == IF Truthy(by_ip) THEN by_ip
                       ELSE IF Truthy(by_mac) THEN by_mac ELSE mac
        e1 == EndpointSetDefault(agg.endpoint_to_primary, mac, primary_mac)
        e2 == IF Truthy(device.ip) THEN EndpointSetDefault(e1, device.ip, primary_mac)
              ELSE e1
        at == ClientIdx(agg.entries, primary_mac)
        entries == IF at = 0 THEN Append(agg.entries, AggregatedDevice(primary_mac))
                   ELSE agg.entries
        idx == ClientIdx(entries, primary_mac)
        radio == wifi_radios[device.interface]
        connection_details == [interface |-> device.interface, ip |-> device.ip,
                               state |-> device.state, radio |-> radio]
        entry == [entries[idx] EXCEPT
                    !.mac_addresses = @ \cup {mac},
                    !.interfaces = @ \cup {device.interface},
                    !.radios = IF Truthy(radio) THEN @ \cup {radio} ELSE @,
                    !.connections = Append(@, connection_details),
                    !.state = IF Truthy(device.state) THEN device.state ELSE @]
    IN  [entries |-> [entries EXCEPT ![idx] = _attach_ip(entry, device.ip)],
         endpoint_to_primary |-> e2]

\* _DeviceAggregator.add_device(device); wifi_radios[interface] is None for
\* an interface that has no radio.
add_device(agg, wifi_radios, device) ==
    LET mac == Lower(device.mac)
        by_mac == EndpointGet(agg.endpoint_to_primary, mac)
        by_ip == IF Truthy(device.ip) THEN EndpointGet(agg.endpoint_to_primary, device.ip)
                 ELSE None
        primary_mac == IF Truthy(by_mac) THEN by_mac
                       ELSE IF Truthy(by_ip) THEN by_ip ELSE mac
        e1 == EndpointSetDefault(agg.endpoint_to_primary, mac, primary_mac)
        e2 == IF Truthy(device.ip) THEN EndpointSetDefault(e1, device.ip, primary_mac)
              ELSE e1
        at == ClientIdx(agg.entries, primary_mac)
        entries == IF at = 0 THEN Append(agg.entries, AggregatedDevice(primary_mac))
                   ELSE agg.entries
        idx == ClientIdx(entries, primary_mac)
        radio == wifi_radios[device.interface]
        connection_details == [interface |-> device.interface, ip |-> device.ip,
                               state |-> device.state, radio |-> radio]
        entry == [entries[idx] EXCEPT
                    !.mac_addresses = @ \cup {mac},
                    !.interfaces = @ \cup {device.interface},
                    !.radios = IF Truthy(radio) THEN @ \cup {radio} ELSE @,
                    !.connections = Append(@, connection_details),
                    !.state = IF Truthy(device.state) THEN device.state ELSE @]
    IN  [entries |-> [entries EXCEPT ![idx] = _attach_ip(entry, device.ip)],
         endpoint_to_primary |-> e2]

\* for device in devices: aggregator.add_device(device)
RECURSIVE AddDevices(_, _, _)
AddDevices(agg, wifi_radios, discovered) ==
    IF discovered = <<>> THEN agg
    ELSE CHOOSE out \in
           {AddDevices(next, wifi_radios, Tail(discovered)) :
              next \in {add_device(agg, wifi_radios, Head(discovered))}} : TRUE

\* The sort key of a connection: (interface or "", ip or "").
ConnectionKey(conn) ==
    <<IF Truthy(conn.interface) THEN conn.interface ELSE <<>>,
      IF Truthy(conn.ip) THEN conn.ip ELSE <<>>>>

KeyLess(a, b) == StrLess(a[1], b[1]) \/ (a[1] = b[1] /\ StrLess(a[2], b[2]))

\* sorted(connections, key=...): stable.
RECURSIVE SortedConnections(_)
SortedConnections(connections) ==
    IF connections = <<>> THEN <<>>
    ELSE LET n == Len(connections)
             x == connections[n]
             front == SortedConnections(SubSeq(connections, 1, n - 1))
             \* the entries whose key is not greater than x's stay before x
             k == Cardinality({i \in 1..(n - 1) :
                                 ~KeyLess(ConnectionKey(x), ConnectionKey(front[i]))})
         IN  SubSeq(front, 1, k) \o <<x>> \o SubSeq(front, k + 1, n - 1)

\* _resolved_host(entry): name, host, the least IPv4, the least IPv6, None.
_resolved_host(entry) ==
    LET least(S) == CHOOSE x \in S : \A y \in S : ~StrLess(y, x)
    IN  IF Truthy(entry.name) THEN entry.name
        ELSE IF Truthy(entry.host) THEN entry.host
        ELSE IF entry.ipv4_addresses # {} THEN least(entry.ipv4_addresses)
        ELSE IF entry.ipv6_addresses # {} THEN least(entry.ipv6_addresses)
        ELSE None

\* sorted(S) for a set of str.
RECURSIVE SortedStrs(_)
SortedStrs(S) ==
    IF S = {} THEN <<>>
    ELSE LET least == CHOOSE x \in S : \A y \in S : ~StrLess(y, x)
         IN  <<least>> \o SortedStrs(S \ {least})

\* _DeviceAggregator.as_payload() without DHCP hosts (_apply_dhcp_context
\* then changes nothing): a dict keyed by primary_mac, in insertion order;
\* mac_addresses is the list of the primary followed by the others sorted.
as_payload(agg) ==
    [i \in 1..Len(agg.entries) |->
       [agg.entries[i] EXCEPT
          !.host = _resolved_host(agg.entries[i]),
          !.mac_addresses = <<agg.entries[i].primary_mac>>
                              \o SortedStrs(@ \ {agg.entries[i].primary_mac}),
          !.connections = SortedConnections(@)]]

\* The loop of _merge_device_entries over the connections of source.
RECURSIVE MergeConnections(_, _)
MergeConnections(existing_connections, incoming_connections) ==
    IF incoming_connections = <<>> THEN existing_connections
    ELSE MergeConnections(
           IF InSeq(Head(incoming_connections), existing_connections)
           THEN existing_connections
           ELSE Append(existing_connections, Head(incoming_connections)),
           Tail(incoming_connections))

\* _merge_device_entries(target, source): the target afterwards.
_merge_device_entries(target, source) ==
    [target EXCEPT
       !.interfaces = @ \cup source.interfaces,
       !.radios = @ \cup source.radios,
       !.ipv4_addresses = @ \cup source.ipv4_addresses,
       !.ipv6_addresses = @ \cup source.ipv6_addresses,
       !.state = IF Truthy(source.state) /\ ~Truthy(@) THEN source.state ELSE @,
       !.host = IF Truthy(source.host) /\ ~Truthy(@) THEN source.host ELSE @,
       !.name = IF Truthy(source.name) /\ ~Truthy(@) THEN source.name ELSE @,
       !.mac_addresses =
           IF SeqSet(source.mac_addresses) \subseteq SeqSet(@) THEN @
           ELSE SortedStrs(SeqSet(@) \cup SeqSet(source.mac_addresses)),
       !.connections = MergeConnections(@, source.connections)]

(***************************************************************************)
(* The state machine                                                       *)
(***************************************************************************)
\* The alias of the one configured coordinator in hass.data[DOMAIN].
CoordinatorAlias == "home"

MaxCalls == 2

MaxBatch == 2

\* The log entry of a call: what was called, with what, and what came back.
NoCall == [op |-> "none"]

\* No coroutine of the integration is in flight.
NoTasks == [cycle |-> [pc |-> "idle"], service |-> [pc |-> "idle"]]

\* map_mac(alias, mac, hostname, ipv4) on the registry.
MapMac ==
    /\ variant = "registry"
    /\ calls < MaxCalls
    /\ \E alias \in ALIASES, mac \in MACS, hostname \in HOSTNAMES, ipv4 \in IPV4S :
        \E r \in {map_mac(devices, alias, mac, hostname, ipv4)} :
            /\ devices' = r.devices
            /\ last' = [op |-> "map_mac", alias |-> alias, mac |-> mac,
                        hostname |-> _normalize_hostname(hostname), ipv4 |-> ipv4,
                        primary |-> r.primary, is_new |-> r.is_new]
    /\ calls' = calls + 1
    /\ UNCHANGED <<tasks, hass_data, variant, known, stored, data, bus>>

\* The calls of the map_mac service: every kind of call, malformed ones
\* included, where the registry is driven by its operations; the well-formed
\* calls for the coordinator's alias where the coordinator runs.
ServiceAliases ==
    IF variant \in {"coordinator", "interleaved"} THEN {CoordinatorAlias} ELSE ALIASES
ServiceMacs == IF variant \in {"coordinator", "interleaved"} THEN MACS ELSE RAWMACS

\* The map_mac service: normalize, find the coordinator, add_mac, save,
\* remove the alt MAC's entity, refresh.  A raise ends the handler where it
\* happens: what add_mac had done by then stays done.
HandleMapMac ==
    /\ variant \in {"registry", "coordinator"}
    /\ calls < MaxCalls
    /\ \E alias \in ServiceAliases, primary_mac \in ServiceMacs, alt_mac \in ServiceMacs :
        LET primary == normalize_mac(primary_mac)
            alt == normalize_mac(alt_mac)
            call == [op |-> "service", alias |-> alias, primary |-> primary, alt |-> alt]
            raised(err) == call @@ [err |-> err, saved |-> FALSE,
                                    removed |-> None, refreshed |-> FALSE]
        IN  IF ~Truthy(primary) \/ ~Truthy(alt)
            THEN devices' = devices /\ stored' = stored /\ last' = raised(ErrInvalidMac)
            ELSE IF alias # CoordinatorAlias
            THEN devices' = devices /\ stored' = stored /\ last' = raised(ErrAliasNotFound)
            ELSE \E r \in {add_mac(devices, alias, primary, alt)} :
                     /\ devices' = r.devices
                     /\ stored' = IF r.err # NoErr THEN stored ELSE r.devices
                     /\ last' = IF r.err # NoErr THEN raised(r.err)
                                ELSE call @@ [err |-> NoErr, saved |-> TRUE,
                                              removed |-> <<alias, Without(alt, ":")>>,
                                              refreshed |-> TRUE]
    /\ calls' = calls + 1
    /\ UNCHANGED <<tasks, hass_data, variant, known, data, bus>>

\* Device payloads keyed by MAC text, as the collectors hand them over.
DeviceOf(mac) == [mac |-> mac, mac_addresses |-> IF Truthy(mac) THEN <<mac>> ELSE <<>>]

\* The payload of a device for which the aggregator grouped two MACs that
\* shared an IP: lower-case key, the key first in mac_addresses.
GroupedDevice ==
    [mac |-> Lower(Mac("A")), mac_addresses |-> <<Lower(Mac("A")), Lower(Mac("B"))>>]

DEVICES == {DeviceOf(mac) : mac \in RAWMACS \ {None}} \cup {GroupedDevice}

Batches ==
    UNION {[1..n -> DEVICES] : n \in 0..MaxBatch}

\* consolidate_devices(devices, store) on the known-devices store.
Consolidate ==
    /\ variant = "known_devices"
    /\ calls < MaxCalls
    /\ \E devices_in \in Batches :
        /\ \A i, j \in 1..Len(devices_in) : i # j => devices_in[i].mac # devices_in[j].mac
        /\ \E r \in {consolidate_devices(devices_in, known)} :
               /\ known' = r.known
               /\ last' = [op |-> "consolidate", devices_in |-> devices_in,
                           consolidated |-> r.consolidated, dirty |-> r.dirty]
    /\ calls' = calls + 1
    /\ UNCHANGED <<tasks, hass_data, variant, devices, stored, data, bus>>

\* _register_secondary_mac(primary, new, store) on the known-devices store.
RegisterSecondary ==
    /\ variant = "known_devices"
    /\ calls < MaxCalls
    /\ \E primary_mac \in RAWMACS, new_mac \in RAWMACS :
        \E r \in {_register_secondary_mac(primary_mac, new_mac, known)} :
            /\ known' = r.known
            /\ last' = [op |-> "register", primary |-> api_normalize_mac(primary_mac),
                        new |-> api_normalize_mac(new_mac), changed |-> r.changed]
    /\ calls' = calls + 1
    /\ UNCHANGED <<tasks, hass_data, variant, devices, stored, data, bus>>

\* What the sources can report in a cycle, in the order the cycle reads
\* them: a static DHCP host, a DHCPv4 lease with the same hostname and
\* address for another MAC, a DHCPv6 lease, two ARP neighbours and a
\* wireless association.
SIGHTINGS ==
    << [from |-> "hosts", mac |-> Mac("A"), hostname |-> <<"p">>, ip |-> <<"5">>,
        source |-> <<"s", "t", "a", "t", "i", "c">>],
       [from |-> "dhcp_v4", mac |-> Mac("B"), hostname |-> <<"p">>, ip |-> <<"5">>,
        source |-> <<"d", "y", "n", "a", "m", "i", "c">>],
       [from |-> "dhcp_v6", mac |-> Mac("B"), hostname |-> None,
        ipv6 |-> <<":", ":", "1">>, source |-> <<"d", "y", "n", "a", "m", "i", "c">>],
       [from |-> "neighbors", mac |-> Mac("A"), ip |-> <<"5">>,
        interface |-> <<"e", "t", "h", "0">>],
       [from |-> "neighbors", mac |-> Mac("C"), ip |-> <<"9">>,
        interface |-> <<"w", "l", "0">>],
       [from |-> "wifi", mac |-> Mac("B"), interface |-> <<"w", "l", "0">>,
        signal |-> <<"-", "5", "0">>] >>

\* The entries of seq at the positions in S, in order.
RECURSIVE Pick(_, _)
Pick(seq, S) ==
    IF seq = <<>> THEN <<>>
    ELSE Pick(SubSeq(seq, 1, Len(seq) - 1), S)
            \o (IF Len(seq) \in S THEN <<seq[Len(seq)]>> ELSE <<>>)

\* A successful update cycle of the coordinator: the sources answer, every
\* entry is registered, the registry is saved, unsighted primaries are
\* carried forward, and the result becomes coordinator.data.
Cycle ==
    /\ variant = "coordinator"
    /\ calls < MaxCalls
    /\ \E S \in SUBSET (1..Len(SIGHTINGS)) :
        \E entries \in {Pick(SIGHTINGS, S)}, now \in {utcnow_iso(calls + 1)} :
            \E r \in {_async_update_data(devices, data, CoordinatorAlias, entries, now)} :
                /\ devices' = r.devices
                /\ stored' = r.devices
                /\ data' = r.clients
                /\ bus' = bus \o r.fired
                /\ last' = [op |-> "cycle", entries |-> entries, seen |-> r.seen,
                            fired |-> r.fired]
    /\ calls' = calls + 1
    /\ UNCHANGED <<tasks, hass_data, variant, known>>

\* The collectors of a cycle, in the order _async_update_data awaits them
\* (for a DHCP server): each runs a command over SSH.
Collectors ==
    <<"hosts", "dhcp_v4", "dhcp_v6", "neighbors", "wifi_interfaces", "wifi">>

\* A slip: what the collectors before the failing one returned is registered
\* and saved before UpdateFailed is raised.
CycleFails_registers_answered ==
    /\ variant = "coordinator"
    /\ calls < MaxCalls
    /\ \E k \in 1..Len(Collectors) :
        \E S \in SUBSET {i \in 1..Len(SIGHTINGS) :
                          \E j \in 1..(k - 1) : SIGHTINGS[i].from = Collectors[j]} :
            \E entries \in {Pick(SIGHTINGS, S)}, now \in {utcnow_iso(calls + 1)} :
                \E r \in {_async_update_data(devices, data, CoordinatorAlias, entries, now)} :
                    /\ devices' = r.devices
                    /\ stored' = r.devices
                    /\ bus' = bus \o r.fired
                    /\ last' = [op |-> "cycle_failed", failed |-> Collectors[k],
                                answered |-> {Collectors[j] : j \in 1..(k - 1)}]
    /\ calls' = calls + 1
    /\ UNCHANGED <<tasks, hass_data, variant, known, data>>

\* An update cycle in which the SSH command of a collector raises NxSSHError
\* (the connection fails, or the command ends without an exit status):
\* UpdateFailed is raised from the try block, whatever the collectors
\* awaited before it returned, and before anything is registered;
\* coordinator.data stays.  (A command that fails on the router returns
\* empty output, "2>/dev/null || true": that is a source without entries in
\* Cycle.)
CycleFails ==
    /\ variant = "coordinator"
    /\ calls < MaxCalls
    /\ \E k \in 1..Len(Collectors) :
          last' = [op |-> "cycle_failed", failed |-> Collectors[k],
                   answered |-> {Collectors[j] : j \in 1..(k - 1)}]
    /\ calls' = calls + 1
    /\ UNCHANGED <<tasks, hass_data, variant, known, devices, stored, data, bus>>

\* Home Assistant restarts: async_setup_entry makes a new registry, loads it
\* from the stored document, and a new coordinator whose data is empty.
Restart ==
    /\ variant = "coordinator"
    /\ devices' = async_load(stored)
    /\ data' = <<>>
    /\ last' = [op |-> "restart"]
    /\ UNCHANGED <<tasks, hass_data, variant, known, calls, stored, bus>>

Init ==
    /\ variant \in {"registry", "known_devices"}
    /\ tasks = NoTasks
    /\ hass_data = <<>>
    /\ calls = 0
    /\ devices = <<>>
    /\ known = [devices |-> <<>>, pending |-> <<>>]
    /\ last = NoCall
    /\ stored = <<>>
    /\ data = <<>>
    /\ bus = <<>>

Next == MapMac \/ HandleMapMac \/ Consolidate \/ RegisterSecondary

Spec == Init /\ [][Next]_vars

\* The known-devices store alone.
KnownInit ==
    /\ variant = "known_devices"
    /\ tasks = NoTasks
    /\ hass_data = <<>>
    /\ calls = 0
    /\ devices = <<>>
    /\ known = [devices |-> <<>>, pending |-> <<>>]
    /\ last = NoCall
    /\ stored = <<>>
    /\ data = <<>>
    /\ bus = <<>>

KnownNext == Consolidate \/ RegisterSecondary

KnownSpec == KnownInit /\ [][KnownNext]_vars

CoordInit ==
    /\ variant = "coordinator"
    /\ tasks = NoTasks
    /\ hass_data = <<>>
    /\ calls = 0
    /\ devices = <<>>
    /\ known = [devices |-> <<>>, pending |-> <<>>]
    /\ last = NoCall
    /\ stored = <<>>
    /\ data = <<>>
    /\ bus = <<>>

CoordNext == Cycle \/ CycleFails \/ HandleMapMac \/ Restart

CoordSpec == CoordInit /\ [][CoordNext]_vars

(***************************************************************************)
(* The coroutines of the integration on Home Assistant's event loop.  A    *)
(* coroutine runs alone until it awaits; while it is suspended any other   *)
(* coroutine may run.  _async_update_data awaits the collectors and then   *)
(* registry.async_save(); async_handle_map_mac awaits                      *)
(* registry.async_save().  tasks holds each coroutine's position and       *)
(* locals.  Neither coroutine takes a lock.                                *)
(*                                                                         *)
(* registry.async_save() hands the Store a document that refers to         *)
(* self.devices itself: what reaches the disk is the registry as it was    *)
(* when the save was called, or as it is when the save completes.  The     *)
(* awaited save returns or raises.                                         *)
(***************************************************************************)
\* The error of a Store that cannot write.
ErrWrite == "OSError"

\* What a completed save wrote: the document handed over at the call, or
\* the registry at completion.
Written(document) == {document, devices}

\* _async_update_data is called: previous_clients is taken from
\* coordinator.data and the coroutine awaits the collectors.
CycleStart ==
    /\ variant = "interleaved"
    /\ tasks.cycle.pc = "idle"
    /\ calls < MaxCalls
    /\ tasks' = [tasks EXCEPT !.cycle = [pc |-> "collecting", previous_clients |-> data]]
    /\ last' = [op |-> "cycle_started"]
    /\ calls' = calls + 1
    /\ UNCHANGED <<hass_data, variant, known, devices, stored, data, bus>>

\* A collector raises NxSSHError: UpdateFailed, nothing is registered.
CycleCollectFails ==
    /\ variant = "interleaved"
    /\ tasks.cycle.pc = "collecting"
    /\ \E k \in 1..Len(Collectors) :
          last' = [op |-> "cycle_failed", failed |-> Collectors[k],
                   answered |-> {Collectors[j] : j \in 1..(k - 1)}]
    /\ tasks' = [tasks EXCEPT !.cycle = [pc |-> "idle"]]
    /\ UNCHANGED <<hass_data, variant, known, calls, devices, stored, data, bus>>

\* The collectors have answered: the five register loops run without
\* awaiting, then the coroutine awaits registry.async_save().
CycleResolve ==
    /\ variant = "interleaved"
    /\ tasks.cycle.pc = "collecting"
    /\ \E S \in SUBSET (1..Len(SIGHTINGS)) :
        \E entries \in {Pick(SIGHTINGS, S)}, now \in {utcnow_iso(calls)} :
            \E st \in {RegisterAll([devices |-> devices, clients |-> <<>>, fired |-> <<>>],
                                   tasks.cycle.previous_clients, CoordinatorAlias,
                                   entries, now)} :
                /\ devices' = st.devices
                /\ bus' = bus \o st.fired
                /\ tasks' = [tasks EXCEPT !.cycle =
                               [pc |-> "saving",
                                previous_clients |-> tasks.cycle.previous_clients,
                                clients |-> st.clients, fired |-> st.fired,
                                entries |-> entries, document |-> st.devices]]
                /\ last' = [op |-> "cycle_resolved", entries |-> entries]
    /\ UNCHANGED <<hass_data, variant, known, calls, stored, data>>

\* The cycle's save has completed: unsighted primaries of the registry as
\* it is now are carried forward and clients is returned, which the
\* DataUpdateCoordinator makes coordinator.data.
CycleReturn ==
    /\ variant = "interleaved"
    /\ tasks.cycle.pc = "saving"
    /\ \E written \in Written(tasks.cycle.document) : stored' = written
    /\ \E clients \in {CarryForward(tasks.cycle.clients, tasks.cycle.previous_clients,
                                    devices, CoordinatorAlias)} :
        /\ data' = clients
        /\ last' = [op |-> "cycle", entries |-> tasks.cycle.entries,
                    seen |-> {tasks.cycle.clients[i].primary_mac :
                                i \in 1..Len(tasks.cycle.clients)},
                    fired |-> tasks.cycle.fired]
    /\ tasks' = [tasks EXCEPT !.cycle = [pc |-> "idle"]]
    /\ UNCHANGED <<hass_data, variant, known, calls, devices, bus>>

\* The cycle's save raises: the exception leaves _async_update_data, no
\* output is returned and coordinator.data stays.
CycleSaveFails ==
    /\ variant = "interleaved"
    /\ tasks.cycle.pc = "saving"
    /\ last' = [op |-> "cycle_failed", failed |-> "save", answered |-> SeqSet(Collectors)]
    /\ tasks' = [tasks EXCEPT !.cycle = [pc |-> "idle"]]
    /\ UNCHANGED <<hass_data, variant, known, calls, devices, stored, data, bus>>

\* async_handle_map_mac up to its first await: normalize, find the
\* coordinator, add_mac; a raise ends the handler, otherwise it awaits
\* registry.async_save().
ServiceCall ==
    /\ variant = "interleaved"
    /\ tasks.service.pc = "idle"
    /\ calls < MaxCalls
    /\ \E alias \in ServiceAliases, primary_mac \in ServiceMacs, alt_mac \in ServiceMacs :
        LET primary == normalize_mac(primary_mac)
            alt == normalize_mac(alt_mac)
            call == [op |-> "service", alias |-> alias, primary |-> primary, alt |-> alt]
            raised(err) == call @@ [err |-> err, saved |-> FALSE,
                                    removed |-> None, refreshed |-> FALSE]
        IN  IF ~Truthy(primary) \/ ~Truthy(alt)
            THEN devices' = devices /\ tasks' = tasks /\ last' = raised(ErrInvalidMac)
            ELSE IF alias # CoordinatorAlias
            THEN devices' = devices /\ tasks' = tasks /\ last' = raised(ErrAliasNotFound)
            ELSE \E r \in {add_mac(devices, alias, primary, alt)} :
                     /\ devices' = r.devices
                     /\ tasks' = IF r.err # NoErr THEN tasks
                                 ELSE [tasks EXCEPT !.service =
                                         [pc |-> "saving", call |-> call,
                                          document |-> r.devices]]
                     /\ last' = IF r.err # NoErr THEN raised(r.err)
                                ELSE [op |-> "service_called", alias |-> alias,
                                      primary |-> primary, alt |-> alt,
                                      saved |-> FALSE, removed |-> None,
                                      refreshed |-> FALSE]
    /\ calls' = calls + 1
    /\ UNCHANGED <<hass_data, variant, known, stored, data, bus>>

\* A slip: the alt MAC's entity is removed before the save is awaited.
ServiceSaveFails_removes_entity ==
    /\ variant = "interleaved"
    /\ tasks.service.pc = "saving"
    /\ last' = tasks.service.call @@
                 [err |-> ErrWrite, saved |-> FALSE,
                  removed |-> <<tasks.service.call.alias,
                                Without(tasks.service.call.alt, ":")>>,
                  refreshed |-> FALSE]
    /\ tasks' = [tasks EXCEPT !.service = [pc |-> "idle"]]
    /\ UNCHANGED <<hass_data, variant, known, calls, devices, stored, data, bus>>

\* The service's save has completed: the entity whose unique id is
\* alias_alt is removed, the listeners are notified and a refresh is
\* requested.
ServiceSaved ==
    /\ variant = "interleaved"
    /\ tasks.service.pc = "saving"
    /\ \E written \in Written(tasks.service.document) : stored' = written
    /\ last' = tasks.service.call @@
                 [err |-> NoErr, saved |-> TRUE,
                  removed |-> <<tasks.service.call.alias,
                                Without(tasks.service.call.alt, ":")>>,
                  refreshed |-> TRUE]
    /\ tasks' = [tasks EXCEPT !.service = [pc |-> "idle"]]
    /\ UNCHANGED <<hass_data, variant, known, calls, devices, data, bus>>

\* The service's save raises: the error leaves the handler at the await,
\* before the entity removal and the refresh; what add_mac did stays.
ServiceSaveFails ==
    /\ variant = "interleaved"
    /\ tasks.service.pc = "saving"
    /\ last' = tasks.service.call @@
                 [err |-> ErrWrite, saved |-> FALSE, removed |-> None,
                  refreshed |-> FALSE]
    /\ tasks' = [tasks EXCEPT !.service = [pc |-> "idle"]]
    /\ UNCHANGED <<hass_data, variant, known, calls, devices, stored, data, bus>>

TaskInit ==
    /\ variant = "interleaved"
    /\ tasks = NoTasks
    /\ hass_data = <<>>
    /\ calls = 0
    /\ devices = <<>>
    /\ known = [devices |-> <<>>, pending |-> <<>>]
    /\ last = NoCall
    /\ stored = <<>>
    /\ data = <<>>
    /\ bus = <<>>

TaskNext ==
    \/ CycleStart \/ CycleCollectFails \/ CycleResolve \/ CycleReturn \/ CycleSaveFails
    \/ ServiceCall \/ ServiceSaved \/ ServiceSaveFails

TaskSpec == TaskInit /\ [][TaskNext]_vars

(***************************************************************************)
(* Several config entries.  async_setup_entry makes a DeviceRegistry of    *)
(* its own for every entry, each over a Store of the same STORAGE_KEY: one *)
(* document on disk, stored, and in hass_data one registry and one         *)
(* coordinator per entry that is set up.  A save writes the whole devices  *)
(* dict of the registry that saves.                                        *)
(***************************************************************************)
\* The config entries and the alias each was configured with.
ENTRIES == {"entry1", "entry2"}
EntryAlias(entry_id) == IF entry_id = "entry1" THEN "home" ELSE "lab"

\* Position of an entry in hass.data[DOMAIN], 0 when it is not set up.
ConfigEntryIdx(entry_id) ==
    LET S == {i \in 1..Len(hass_data) : hass_data[i].entry_id = entry_id}
    IN  IF S = {} THEN 0 ELSE SeqMin(S)

\* async_setup_entry: a new DeviceRegistry is loaded from the stored
\* document and filed with a new coordinator under the entry's id.
SetupEntry ==
    /\ variant = "entries"
    /\ \E entry_id \in ENTRIES :
        /\ ConfigEntryIdx(entry_id) = 0
        /\ hass_data' = Append(hass_data,
                               [entry_id |-> entry_id, alias |-> EntryAlias(entry_id),
                                devices |-> async_load(stored), data |-> <<>>,
                                saved |-> FALSE])
        /\ last' = [op |-> "setup", entry_id |-> entry_id]
    /\ UNCHANGED <<tasks, variant, known, calls, devices, stored, data, bus>>

\* An update cycle of one entry's coordinator on that entry's registry; its
\* save writes that registry.
EntryCycle ==
    /\ variant = "entries"
    /\ calls < MaxCalls
    /\ \E i \in 1..Len(hass_data), S \in SUBSET (1..Len(SIGHTINGS)) :
        \E entries \in {Pick(SIGHTINGS, S)}, now \in {utcnow_iso(calls + 1)} :
            \E r \in {_async_update_data(hass_data[i].devices, hass_data[i].data,
                                         hass_data[i].alias, entries, now)} :
                /\ hass_data' = [hass_data EXCEPT ![i].devices = r.devices,
                                                  ![i].data = r.clients,
                                                  ![i].saved = TRUE]
                /\ stored' = r.devices
                /\ bus' = bus \o r.fired
                /\ last' = [op |-> "entry_cycle", entry_id |-> hass_data[i].entry_id,
                            entries |-> entries]
    /\ calls' = calls + 1
    /\ UNCHANGED <<tasks, variant, known, devices, data>>

\* The map_mac service: the first coordinator in hass.data[DOMAIN] with the
\* alias of the call; add_mac on its registry, which is then saved.
EntryService ==
    /\ variant = "entries"
    /\ calls < MaxCalls
    /\ \E alias \in ALIASES, primary_mac \in MACS, alt_mac \in MACS :
        LET primary == normalize_mac(primary_mac)
            alt == normalize_mac(alt_mac)
            found == {i \in 1..Len(hass_data) : hass_data[i].alias = alias}
            call == [op |-> "entry_service", alias |-> alias, primary |-> primary,
                     alt |-> alt]
        IN  IF ~Truthy(primary) \/ ~Truthy(alt)
            THEN /\ UNCHANGED <<hass_data, stored>>
                 /\ last' = call @@ [err |-> ErrInvalidMac]
            ELSE IF found = {}
            THEN /\ UNCHANGED <<hass_data, stored>>
                 /\ last' = call @@ [err |-> ErrAliasNotFound]
            ELSE \E i \in {SeqMin(found)} :
                   \E r \in {add_mac(hass_data[i].devices, alias, primary, alt)} :
                     /\ hass_data' = [hass_data EXCEPT
                                        ![i].devices = r.devices,
                                        ![i].saved = IF r.err = NoErr THEN TRUE ELSE @]
                     /\ stored' = IF r.err # NoErr THEN stored ELSE r.devices
                     /\ last' = call @@ [err |-> r.err]
    /\ calls' = calls + 1
    /\ UNCHANGED <<tasks, variant, known, devices, data, bus>>

\* Home Assistant stops: every registry in memory is gone, the document
\* stays.
Shutdown ==
    /\ variant = "entries"
    /\ hass_data # <<>>
    /\ hass_data' = <<>>
    /\ last' = [op |-> "shutdown"]
    /\ UNCHANGED <<tasks, variant, known, calls, devices, stored, data, bus>>

EntriesInit ==
    /\ variant = "entries"
    /\ tasks = NoTasks
    /\ hass_data = <<>>
    /\ calls = 0
    /\ devices = <<>>
    /\ known = [devices |-> <<>>, pending |-> <<>>]
    /\ last = NoCall
    /\ stored = <<>>
    /\ data = <<>>
    /\ bus = <<>>

EntriesNext == SetupEntry \/ EntryCycle \/ EntryService \/ Shutdown

EntriesSpec == EntriesInit /\ [][EntriesNext]_vars

\* The documents a Store can hold when the integration starts: written by an
\* earlier run, by another version, or edited by hand.  MAC text in them is
\* canonical, lower case with dashes, or too short to be a MAC.
MaxDocRecords == 2
MaxDocMacs == 2
MaxDocPending == 1

DOCMACS == RAWMACS \ {Mac("C"), None}
DOCKEYS == DOCMACS \ {Mac("B")}

SeqsUpTo(S, n) == UNION {[1..k -> S] : k \in 0..n}

\* A dict has each key once.
DistinctKeys(items) ==
    \A i, j \in 1..Len(items) : i # j => items[i].primary # items[j].primary

KNOWN_DOCS ==
    {NoDocument} \cup
    {[present |-> TRUE, devices |-> d, pending |-> p] :
       d \in {items \in SeqsUpTo({[primary |-> k, macs |-> m] :
                                    k \in DOCKEYS, m \in SeqsUpTo(DOCMACS, MaxDocMacs)},
                                 MaxDocRecords) : DistinctKeys(items)},
       p \in SeqsUpTo(DOCMACS, MaxDocPending)}

REGISTRY_DOCS ==
    {items \in SeqsUpTo({[primary |-> k, alias |-> CoordinatorAlias, macs |-> m,
                          hostname |-> None, ipv4 |-> None] :
                           k \in DOCKEYS, m \in SeqsUpTo(DOCMACS, MaxDocMacs)},
                        MaxDocRecords) : DistinctKeys(items)}

\* async_setup_entry of the registry variant: registry.async_load().
LoadRegistry ==
    /\ variant = "registry"
    /\ last = NoCall
    /\ devices' = async_load(stored)
    /\ last' = [op |-> "load"]
    /\ UNCHANGED <<tasks, hass_data, variant, calls, known, stored, data, bus>>

\* _load_known_devices(hass, entry_id) of the known-devices variant.
LoadKnown ==
    /\ variant = "known_devices"
    /\ last = NoCall
    /\ known' = _load_known_devices(stored)
    /\ last' = [op |-> "load"]
    /\ UNCHANGED <<tasks, hass_data, variant, calls, devices, stored, data, bus>>

\* The integration starts on whatever document its Store holds.
LoadInit ==
    /\ variant \in {"registry", "known_devices"}
    /\ tasks = NoTasks
    /\ hass_data = <<>>
    /\ calls = 0
    /\ devices = <<>>
    /\ known = [devices |-> <<>>, pending |-> <<>>]
    /\ last = NoCall
    /\ stored \in IF variant = "registry" THEN REGISTRY_DOCS ELSE KNOWN_DOCS
    /\ data = <<>>
    /\ bus = <<>>

LoadNext == LoadRegistry \/ LoadKnown

LoadSpec == LoadInit /\ [][LoadNext]_vars

\* MAC text as it reaches a normalizer: the twelve digits of a MAC in upper
\* or lower case, the pairs joined by colons, dashes, both in turn, dots or
\* nothing, alone or with text before and after; a non-hex digit; too short;
\* empty; missing.
MacPair(d, k) == IF k = 1 THEN <<"0", "2">> ELSE IF k = MacPairs + 1 THEN <<"0", d>>
                 ELSE <<"0", "0">>

RECURSIVE JoinPairs(_, _, _)
JoinPairs(d, sep, k) ==
    IF k = 1 THEN MacPair(d, 1)
    ELSE JoinPairs(d, sep, k - 1) \o sep[k - 1] \o MacPair(d, k)

SEPARATORS ==
    {[k \in 1..MacPairs |-> s] : s \in {<<":">>, <<"-">>, <<".">>, <<>>}}
      \cup {[k \in 1..MacPairs |-> IF k % 2 = 1 THEN <<":">> ELSE <<"-">>]}

TEXTS ==
    {pre \o body \o post :
       pre \in {<<>>, <<" ">>, <<"0">>, <<"x", ":">>},
       body \in UNION {{JoinPairs(d, sep, MacPairs + 1), Lower(JoinPairs(d, sep, MacPairs + 1))} :
                         d \in {"A", "B"}, sep \in SEPARATORS},
       post \in {<<>>, <<" ">>, <<":", "0", "0">>}}
      \cup {[Mac("A") EXCEPT ![2] = "G"], <<"0", "2", ":", "0", "0">>, <<>>, None}

\* What a normalizer is called with: text from outside, or what the call
\* before returned.
NormalizerInputs ==
    {[mac |-> text, text |-> text, by |-> "none"] : text \in TEXTS}
      \cup (IF last.op \in {"normalize_mac", "_normalize_mac"}
            THEN {[mac |-> last.ret, text |-> last.text, by |-> last.op]} ELSE {})

\* ssh_client.normalize_mac(mac).
NormalizeMac ==
    /\ variant = "normalizers"
    /\ calls < MaxCalls
    /\ \E in \in NormalizerInputs :
          last' = [op |-> "normalize_mac", mac |-> in.mac, text |-> in.text,
                   by |-> in.by, ret |-> normalize_mac(in.mac)]
    /\ calls' = calls + 1
    /\ UNCHANGED <<tasks, hass_data, variant, devices, known, stored, data, bus>>

\* api._normalize_mac(mac).
ApiNormalizeMac ==
    /\ variant = "normalizers"
    /\ calls < MaxCalls
    /\ \E in \in NormalizerInputs :
          last' = [op |-> "_normalize_mac", mac |-> in.mac, text |-> in.text,
                   by |-> in.by, ret |-> api_normalize_mac(in.mac)]
    /\ calls' = calls + 1
    /\ UNCHANGED <<tasks, hass_data, variant, devices, known, stored, data, bus>>

NormInit ==
    /\ variant = "normalizers"
    /\ tasks = NoTasks
    /\ hass_data = <<>>
    /\ calls = 0
    /\ devices = <<>>
    /\ known = [devices |-> <<>>, pending |-> <<>>]
    /\ last = NoCall
    /\ stored = <<>>
    /\ data = <<>>
    /\ bus = <<>>

NormNext == NormalizeMac \/ ApiNormalizeMac

NormSpec == NormInit /\ [][NormNext]_vars

(***************************************************************************)
(* NxSSHClient.fetch_interface_devices: what the router prints is drawn    *)
(* from small sets; the aggregator lives within one call, so a behaviour   *)
(* makes one call and then merges entries of its result.                   *)
(***************************************************************************)
Eth0 == <<"e", "t", "h", "0">>

Br0 == <<"b", "r", "0">>

Wl0 == <<"w", "l", "0">>

\* The interfaces of the router.
Interfaces == <<Eth0, Br0, Wl0>>

\* _list_interfaces(conn): the interfaces in the order 'ip -o link show'
\* prints them, any order.
InterfaceOrders ==
    {order \in [1..Len(Interfaces) -> SeqSet(Interfaces)] :
        SeqSet(order) = SeqSet(Interfaces)}

\* _wifi_radios(conn): the radio of each wireless interface.
WifiRadios == [i \in {Eth0, Br0, Wl0} |-> IF i = Wl0 THEN <<"p", "h", "y", "0">> ELSE None]

IPv4Text == <<"1", "0", ".", "0", ".", "0", ".", "5">>

IPv6Text == <<"f", "e", "8", "0", ":", ":", "1">>

AGGMACS == {Lower(Mac("A")), Lower(Mac("B"))}

\* The lines of 'ip neigh show dev X': one per address, the lladdr being
\* None on a line that has none (FAILED, INCOMPLETE).
NEIGH_TABLES ==
    {<<[ip |-> IPv4Text, mac |-> m4, state |-> <<"REACHABLE">>],
       [ip |-> IPv6Text, mac |-> m6, state |-> <<"STALE">>]>> :
        m4 \in AGGMACS \cup {None}, m6 \in AGGMACS \cup {None}}

\* The stations of 'iw dev X station dump'.
STATION_DUMPS ==
    {<<>>, <<Lower(Mac("A"))>>, <<Lower(Mac("B"))>>,
     <<Lower(Mac("A")), Lower(Mac("B"))>>, <<Lower(Mac("B")), Lower(Mac("A"))>>}

\* What one interface answers, or that asking it raised.
InterfaceAnswers(interface) ==
    {[raised |-> TRUE, neigh |-> <<>>, stations |-> <<>>]}
      \cup {[raised |-> FALSE, neigh |-> n, stations |-> s] :
              n \in NEIGH_TABLES,
              s \in IF WifiRadios[interface] # None THEN STATION_DUMPS ELSE {<<>>}}

\* The first loop of _list_devices_for_interface.
RECURSIVE NeighDevices(_, _)
NeighDevices(interface, lines) ==
    IF lines = <<>> THEN <<>>
    ELSE (IF Truthy(Head(lines).mac)
          THEN <<[mac |-> Lower(Head(lines).mac), interface |-> interface,
                  ip |-> Head(lines).ip, state |-> Head(lines).state]>>
          ELSE <<>>) \o NeighDevices(interface, Tail(lines))

\* The second loop of _list_devices_for_interface.
RECURSIVE StationDevices(_, _, _)
StationDevices(interface, stations, seen_macs) ==
    IF stations = <<>> THEN <<>>
    ELSE IF Lower(Head(stations)) \in seen_macs
    THEN StationDevices(interface, Tail(stations), seen_macs)
    ELSE <<[mac |-> Lower(Head(stations)), interface |-> interface,
            ip |-> None, state |-> None]>>
           \o StationDevices(interface, Tail(stations),
                             seen_macs \cup {Lower(Head(stations))})

_list_devices_for_interface(interface, answer) ==
    LET found == NeighDevices(interface, answer.neigh)
    IN  found \o StationDevices(interface, answer.stations,
                                {found[i].mac : i \in 1..Len(found)})

\* _collect_devices(conn, interfaces): the interfaces that raised are skipped.
RECURSIVE _collect_devices(_, _)
_collect_devices(interfaces, answers) ==
    IF interfaces = <<>> THEN <<>>
    ELSE (IF Head(answers).raised THEN <<>>
          ELSE _list_devices_for_interface(Head(interfaces), Head(answers)))
           \o _collect_devices(Tail(interfaces), Tail(answers))

\* fetch_interface_devices(collect_dhcp=False): the "devices" of its payload;
\* answers[k] is what the k-th interface listed answers.
fetch_interface_devices(interfaces, answers) ==
    CHOOSE out \in
      {as_payload(AddDevices([entries |-> <<>>, endpoint_to_primary |-> <<>>],
                             WifiRadios, discovered)) :
         discovered \in {_collect_devices(interfaces, answers)}} : TRUE

Fetch ==
    /\ variant = "aggregator"
    /\ last = NoCall
    /\ calls < MaxCalls
    /\ \E interfaces \in InterfaceOrders :
        \E a1 \in InterfaceAnswers(interfaces[1]), a2 \in InterfaceAnswers(interfaces[2]),
           a3 \in InterfaceAnswers(interfaces[3]) :
           \E discovered \in {_collect_devices(interfaces, <<a1, a2, a3>>)} :
              last' = [op |-> "fetch", interfaces |-> interfaces,
                       answers |-> <<a1, a2, a3>>,
                       discovered |-> discovered,
                       payload |-> fetch_interface_devices(interfaces, <<a1, a2, a3>>)]
    /\ calls' = calls + 1
    /\ UNCHANGED <<tasks, hass_data, variant, devices, known, stored, data, bus>>

\* consolidate_devices meeting a second entry of the payload whose key the
\* store maps to the primary of an earlier one: _merge_device_entries.
MergeEntries ==
    /\ variant = "aggregator"
    /\ last.op = "fetch"
    /\ calls < MaxCalls
    /\ \E i, j \in 1..Len(last.payload) :
          /\ i # j
          /\ last' = [op |-> "merge", target |-> last.payload[i],
                      source |-> last.payload[j],
                      merged |-> _merge_device_entries(last.payload[i], last.payload[j])]
    /\ calls' = calls + 1
    /\ UNCHANGED <<tasks, hass_data, variant, devices, known, stored, data, bus>>

AggInit ==
    /\ variant = "aggregator"
    /\ tasks = NoTasks
    /\ hass_data = <<>>
    /\ calls = 0
    /\ devices = <<>>
    /\ known = [devices |-> <<>>, pending |-> <<>>]
    /\ last = NoCall
    /\ stored = <<>>
    /\ data = <<>>
    /\ bus = <<>>

AggNext == Fetch \/ MergeEntries

AggSpec == AggInit /\ [][AggNext]_vars

(***************************************************************************)
(* Properties                                                              *)
(***************************************************************************)
\* No MAC is a member of two different records of a store.
NoMacInTwoRecords(devs) ==
    \A i, j \in 1..Len(devs) :
        i # j => \A k \in 1..Len(devs[i].macs) : ~InSeq(devs[i].macs[k], devs[j].macs)

RegistryRecord(primary, alias, macs, hostname, ipv4) ==
    [primary |-> primary, alias |-> alias, macs |-> macs,
     hostname |-> hostname, ipv4 |-> ipv4]

\* C1: in the DeviceRegistry, after any sequence of map_mac and add_mac
\* calls from the empty registry, no MAC is in the macs list of two records:
\* it holds of the registry as it stands and after any one further call.
C1_NoMacInTwoRegistryRecords ==
    /\ NoMacInTwoRecords(devices)
    /\ \A alias \in ALIASES, mac \in MACS :
        /\ \A hostname \in HOSTNAMES, ipv4 \in IPV4S :
              NoMacInTwoRecords(map_mac(devices, alias, mac, hostname, ipv4).devices)
        /\ \A alt \in MACS :
              NoMacInTwoRecords(add_mac(devices, alias, mac, alt).devices)

\* C2: in the known-devices store, after any sequence of consolidate_devices
\* and _register_secondary_mac calls from the empty store, no MAC is in the
\* macs list of two device records.
C2_NoMacInTwoKnownRecords == NoMacInTwoRecords(known.devices)

\* C3: after a successful association of A to P, the lookup of A's primary
\* returns P: _find_primary_mac after _register_secondary_mac, and
\* get_primary_for_mac after add_mac.
C3_LookupReturnsNewPrimary ==
    /\ (last.op = "register" /\ Truthy(last.primary) /\ Truthy(last.new))
          => _find_primary_mac(last.new, known) = last.primary
    /\ (last.op = "service" /\ last.err = NoErr)
          => get_primary_for_mac(devices, last.alias, last.alt) = last.primary

\* C4: association is idempotent: in every reachable store, a successful
\* add_mac (resp. _register_secondary_mac) repeated with the same arguments
\* leaves the store as the first call left it, raises nothing, and the second
\* _register_secondary_mac returns False.
C4_AssociationIdempotent ==
    /\ variant = "registry" =>
          \A alias \in ALIASES, primary \in MACS, alt \in MACS :
              LET first == add_mac(devices, alias, primary, alt)
              IN  first.err = NoErr =>
                    add_mac(first.devices, alias, primary, alt)
                       = [devices |-> first.devices, err |-> NoErr]
    /\ variant = "known_devices" =>
          \A primary \in RAWMACS, new \in RAWMACS :
              LET first == _register_secondary_mac(primary, new, known)
              IN  (Truthy(api_normalize_mac(primary)) /\ Truthy(api_normalize_mac(new))) =>
                    _register_secondary_mac(primary, new, first.known)
                       = [known |-> first.known, changed |-> FALSE]

\* A successful association that changed the registry has been made.
C4_Witness ==
    /\ last.op = "service"
    /\ last.err = NoErr
    /\ last.primary # last.alt
    /\ \E i \in 1..Len(devices) :
          devices[i].primary = last.primary /\ InSeq(last.alt, devices[i].macs)

\* C5: a failed association mutates nothing: when the map_mac service raises,
\* the registry is as before the call and nothing is saved, removed or
\* refreshed; when _register_secondary_mac is given a MAC that fails
\* normalization, it returns False and the store is as before the call.
C5_FailedAssociationMutatesNothing ==
    [][/\ (last'.op = "service" /\ last'.err # NoErr)
            => /\ devices' = devices
               /\ ~last'.saved
               /\ last'.removed = None
               /\ ~last'.refreshed
       /\ (last'.op = "register" /\ (~Truthy(last'.primary) \/ ~Truthy(last'.new)))
            => known' = known /\ ~last'.changed]_vars

\* The service has raised on a registry that holds records.
C5_Witness ==
    /\ last.op = "service"
    /\ last.err \in {ErrPrimaryNotFound, ErrAliasMismatch}
    /\ devices # <<>>

\* C6: an association whose primary MAC is not yet a known identity registers
\* the primary as a record with itself as first member and adds the candidate
\* to it: the call succeeds and both MACs are members of the record.
C6_UnknownPrimarySelfRegisters ==
    [][/\ (/\ last'.op = "service"
           /\ Truthy(last'.primary) /\ Truthy(last'.alt)
           /\ last'.alias = CoordinatorAlias
           /\ KeyIdx(devices, last'.primary) = 0)
            => /\ last'.err = NoErr
               /\ KeyIdx(devices', last'.primary) # 0
               /\ LET macs == devices'[KeyIdx(devices', last'.primary)].macs
                  IN  Head(macs) = last'.primary /\ InSeq(last'.alt, macs)
       /\ (/\ last'.op = "register"
           /\ Truthy(last'.primary) /\ Truthy(last'.new)
           /\ KeyIdx(known.devices, last'.primary) = 0)
            => /\ KeyIdx(known'.devices, last'.primary) # 0
               /\ LET macs == known'.devices[KeyIdx(known'.devices, last'.primary)].macs
                  IN  Head(macs) = last'.primary /\ InSeq(last'.new, macs)]_vars

\* The matching rule for a sighting with hostname and ipv4: the stored
\* hostname is null or equal, and the stored ipv4 is null or equal.
RuleBothHints(info, alias, hostname, ipv4) ==
    /\ info.alias = alias
    /\ info.hostname \in {None, hostname}
    /\ info.ipv4 \in {None, ipv4}

\* C7: map_mac of a MAC that is in no record of the alias, with hostname h and
\* ipv4 i, when a record of the alias stores h (trimmed, lower-cased) and i:
\* returns (R, True) for the first record R the rule matches, appends the MAC
\* to R's members and creates no record.  From the empty registry,
\* (AA, printer, 10.0.0.5) then (BB, printer, 10.0.0.5) leave AA: [AA, BB].
C7_HostnameIpMatch ==
    /\ \A hostname \in HOSTNAMES, ipv4 \in IPV4S :
          LET h == _normalize_hostname(hostname)
          IN  (Truthy(h) /\ Truthy(ipv4)) =>
                \A alias \in ALIASES :
                   LET exact == {i \in 1..Len(devices) :
                                   /\ devices[i].alias = alias
                                   /\ devices[i].hostname = h
                                   /\ devices[i].ipv4 = ipv4}
                       rule == {i \in 1..Len(devices) :
                                   RuleBothHints(devices[i], alias, h, ipv4)}
                   IN  exact # {} =>
                         \A mac \in MACS :
                            get_primary_for_mac(devices, alias, mac) = None =>
                              LET r == map_mac(devices, alias, mac, hostname, ipv4)
                                  first == SeqMin(rule)
                              IN  /\ r.primary = devices[first].primary
                                  /\ r.is_new
                                  /\ Len(r.devices) = Len(devices)
                                  /\ \A i \in 1..Len(devices) :
                                        /\ r.devices[i].primary = devices[i].primary
                                        /\ r.devices[i].macs =
                                              IF i = first
                                              THEN Append(devices[i].macs, mac)
                                              ELSE devices[i].macs
    /\ \A alias \in ALIASES :
          devices = <<RegistryRecord(Mac("A"), alias, <<Mac("A")>>, <<"p">>, <<"5">>)>>
             => map_mac(devices, alias, Mac("B"), <<"p">>, <<"5">>).devices
                  = <<RegistryRecord(Mac("A"), alias, <<Mac("A"), Mac("B")>>,
                                     <<"p">>, <<"5">>)>>

\* The second sighting of the scenario has been merged into the first.
C7_Witness ==
    /\ devices = <<RegistryRecord(Mac("A"), "home", <<Mac("A"), Mac("B")>>,
                                  <<"p">>, <<"5">>)>>
    /\ last.op = "map_mac" /\ last.mac = Mac("B") /\ last.hostname = <<"p">>
    /\ last.ipv4 = <<"5">> /\ last.primary = Mac("A") /\ last.is_new

\* The sighting (DD, phone, 10.0.0.9) arrives at the registry that the
\* sighting (CC, no hostname, 10.0.0.9) made from the empty registry.
C8_Scenario ==
    /\ devices = <<RegistryRecord(Mac("C"), "home", <<Mac("C")>>, None, <<"9">>)>>
    /\ last'.op = "map_mac" /\ last'.alias = "home" /\ last'.mac = Mac("A")
    /\ last'.hostname = <<"q">> /\ last'.ipv4 = <<"9">>

\* C8 as stated: the two sightings do not merge, two records result.
C8_BareIpIdentityNotClaimed ==
    [][C8_Scenario =>
         devices' = <<RegistryRecord(Mac("C"), "home", <<Mac("C")>>, None, <<"9">>),
                      RegistryRecord(Mac("A"), "home", <<Mac("A")>>, <<"q">>, <<"9">>)>>]_vars

\* C8 as amended: the second sighting is merged into the record of the
\* first, which takes its hostname; map_mac returns (CC, True).
C8_BareIpIdentityClaimed ==
    [][C8_Scenario =>
         /\ devices' = <<RegistryRecord(Mac("C"), "home", <<Mac("C"), Mac("A")>>,
                                        <<"q">>, <<"9">>)>>
         /\ last'.primary = Mac("C")
         /\ last'.is_new]_vars

\* The hostname-bearing sighting has been merged into the bare-IP record.
C8_Witness ==
    /\ devices = <<RegistryRecord(Mac("C"), "home", <<Mac("C"), Mac("A")>>,
                                  <<"q">>, <<"9">>)>>
    /\ last.op = "map_mac" /\ last.mac = Mac("A") /\ last.hostname = <<"q">>
    /\ last.primary = Mac("C") /\ last.is_new

\* C9: find_by_identity with a hostname and no ipv4 returns the first record
\* of the alias whose stored hostname is null or equal to the hostname
\* (trimmed, lower-cased), and None only when there is none.
C9_HostnameOnlyMatch ==
    \A alias \in ALIASES, hostname \in HOSTNAMES :
        LET h == _normalize_hostname(hostname)
            rule == {i \in 1..Len(devices) :
                        devices[i].alias = alias /\ devices[i].hostname \in {None, h}}
        IN  Truthy(h) =>
              find_by_identity(devices, alias, hostname, None)
                 = IF rule = {} THEN None ELSE devices[SeqMin(rule)].primary

\* C10: find_by_identity without hostname returns a record only if the record
\* stores no hostname and stores exactly the ipv4 of the sighting.
C10_BareIpMatch ==
    \A alias \in ALIASES, hostname \in HOSTNAMES, ipv4 \in IPV4S :
        LET found == find_by_identity(devices, alias, hostname, ipv4)
        IN  (~Truthy(_normalize_hostname(hostname)) /\ Truthy(found)) =>
              LET info == devices[KeyIdx(devices, found)]
              IN  /\ info.alias = alias
                  /\ info.hostname = None
                  /\ Truthy(ipv4)
                  /\ info.ipv4 = ipv4

\* A sighting without hostname has been merged into a record by its ipv4.
C10_Witness ==
    /\ last.op = "map_mac"
    /\ last.hostname = None
    /\ last.is_new
    /\ last.primary # last.mac
    /\ \E i \in 1..Len(devices) :
          /\ devices[i].primary = last.primary
          /\ devices[i].hostname = None
          /\ devices[i].ipv4 = last.ipv4

\* C11: map_mac with neither hostname nor ipv4, for a MAC that is a member of
\* no record of the alias, attempts no identity match: it returns (mac, True)
\* and leaves a record keyed by the MAC, of the alias, with member list [mac],
\* whatever records exist; the records under other keys are as before.
C11_NoHintsCreatesRecord ==
    variant = "registry" =>
      \A alias \in ALIASES, mac \in MACS, hostname \in HOSTNAMES :
         (/\ ~Truthy(_normalize_hostname(hostname))
          /\ get_primary_for_mac(devices, alias, mac) = None)
           => LET r == map_mac(devices, alias, mac, hostname, None)
                  k == KeyIdx(r.devices, mac)
              IN  /\ find_by_identity(devices, alias, hostname, None) = None
                  /\ r.primary = mac
                  /\ r.is_new
                  /\ k # 0
                  /\ r.devices[k] = RegistryRecord(mac, alias, <<mac>>, None, None)
                  /\ \A i \in 1..Len(devices) :
                        devices[i].primary # mac => InSeq(devices[i], r.devices)

\* A sighting without hints has made its own record next to another record.
C11_Witness ==
    /\ last.op = "map_mac"
    /\ last.hostname = None /\ last.ipv4 = None
    /\ last.is_new /\ last.primary = last.mac
    /\ Len(devices) > 1
    /\ devices[KeyIdx(devices, last.mac)]
          = RegistryRecord(last.mac, last.alias, <<last.mac>>, None, None)

\* C12: map_mac on a MAC that is a member of a record of the alias returns
\* (that record's primary, False); the keys, their order, aliases and member
\* lists are unchanged, and that record's hostname / ipv4 are overwritten by
\* the hints that are present (the hostname trimmed and lower-cased) and kept
\* where the hint is null or empty.
C12_MetadataRefresh ==
    variant = "registry" =>
      \A alias \in ALIASES, mac \in MACS :
         LET existing == get_primary_for_mac(devices, alias, mac)
         IN  Truthy(existing) =>
               \A hostname \in HOSTNAMES, ipv4 \in IPV4S :
                  LET r == map_mac(devices, alias, mac, hostname, ipv4)
                      h == _normalize_hostname(hostname)
                  IN  /\ r.primary = existing
                      /\ ~r.is_new
                      /\ Len(r.devices) = Len(devices)
                      /\ \A i \in 1..Len(devices) :
                            IF devices[i].primary # existing
                            THEN r.devices[i] = devices[i]
                            ELSE r.devices[i] =
                                   [devices[i] EXCEPT
                                      !.hostname = IF Truthy(h) THEN h ELSE @,
                                      !.ipv4 = IF Truthy(ipv4) THEN ipv4 ELSE @]

\* A member was sighted again without hostname: the stored hostname stays.
C12_Witness ==
    /\ last.op = "map_mac"
    /\ ~last.is_new
    /\ last.hostname = None
    /\ \E i \in 1..Len(devices) :
          /\ devices[i].primary = last.primary
          /\ devices[i].alias = last.alias
          /\ InSeq(last.mac, devices[i].macs)
          /\ Truthy(devices[i].hostname)

\* C16: map_mac never deletes or replaces a record: every record present
\* before the call is present after it under the same key, with the same
\* alias and with at least the same members.
C16_MapMacKeepsRecords ==
    [][last'.op = "map_mac" =>
         \A i \in 1..Len(devices) :
            \E j \in 1..Len(devices') :
               /\ devices'[j].primary = devices[i].primary
               /\ devices'[j].alias = devices[i].alias
               /\ \A k \in 1..Len(devices[i].macs) :
                     InSeq(devices[i].macs[k], devices'[j].macs)]_vars

\* The entry of a consolidated payload under a key, 0 when there is none.
EntryIdx(consolidated, primary_key) ==
    LET S == {j \in 1..Len(consolidated) : consolidated[j].primary_mac = primary_key}
    IN  IF S = {} THEN 0 ELSE SeqMin(S)

\* C15: every primary of the known-devices store is emitted in the output of
\* consolidate_devices, also when the input holds no sighting of it.
C15_KnownDevicesAlwaysEmitted ==
    last.op = "consolidate" =>
       \A i \in 1..Len(known.devices) :
          EntryIdx(last.consolidated, Lower(known.devices[i].primary)) # 0

\* C18: every MAC listed in a device's mac_addresses in the output of
\* consolidate_devices is a member of that device's primary record in the
\* store and of no other record (MACs compared in normalized form, so that
\* neither case nor separator makes a difference).
C18_ListedMacsAreMembers ==
    last.op = "consolidate" =>
       \A j \in 1..Len(last.consolidated) :
          LET S == {i \in 1..Len(known.devices) :
                      Lower(known.devices[i].primary) = last.consolidated[j].primary_mac}
          IN  /\ S # {}
              /\ \A m \in last.consolidated[j].mac_addresses :
                    \A i \in 1..Len(known.devices) :
                       InSeq(api_normalize_mac(m), known.devices[i].macs) <=> (i \in S)

\* The normalized MACs of a batch, in input order, each once.
RECURSIVE NormalizedKeys(_)
NormalizedKeys(devices_in) ==
    IF devices_in = <<>> THEN <<>>
    ELSE LET rest == NormalizedKeys(SubSeq(devices_in, 1, Len(devices_in) - 1))
             n == api_normalize_mac(devices_in[Len(devices_in)].mac)
         IN  IF ~Truthy(n) \/ InSeq(n, rest) THEN rest ELSE Append(rest, n)

\* C19: bootstrap.  consolidate_devices on a store with no devices and no
\* pending registers every input MAC that normalizes as its own primary with
\* member list [mac], emits it, leaves pending empty, and is dirty exactly
\* when there is such a MAC.
C19_Bootstrap ==
    [][(last'.op = "consolidate" /\ known.devices = <<>> /\ known.pending = <<>>)
         => LET macs == NormalizedKeys(last'.devices_in)
            IN  /\ known'.devices = [i \in 1..Len(macs) |->
                                       [primary |-> macs[i], macs |-> <<macs[i]>>]]
                /\ known'.pending = <<>>
                /\ Len(last'.consolidated) = Len(macs)
                /\ \A i \in 1..Len(macs) :
                      /\ last'.consolidated[i].primary_mac = Lower(macs[i])
                      /\ Lower(macs[i]) \in last'.consolidated[i].mac_addresses
                /\ last'.dirty = (macs # <<>>)]_vars

\* A bootstrap call has registered two devices.
C19_Witness ==
    /\ last.op = "consolidate"
    /\ calls = 1
    /\ Len(known.devices) = MaxBatch
    /\ Len(last.consolidated) = MaxBatch
    /\ last.dirty

NoDuplicates(s) == \A i, j \in 1..Len(s) : i # j => s[i] # s[j]

IsMember(devs, mac) == get_primary_for_mac(devs, CoordinatorAlias, mac) # None

\* C13: EVENT_NEW_MAC_DETECTED is fired for a MAC at most once over any
\* sequence of cycles, associations and restarts: only by a cycle that sights
\* the MAC, only when the MAC was a member of no record before that cycle (it
\* is one after it), once in that cycle however many sources sight it, and
\* never again, since a member stays a member.
C13_NewMacEventOnce ==
    [][LET fired == SubSeq(bus', Len(bus) + 1, Len(bus'))
       IN  /\ Len(bus') >= Len(bus)
           /\ SubSeq(bus', 1, Len(bus)) = bus
           /\ fired # <<>> => last'.op = "cycle"
           /\ \A k \in 1..Len(fired) :
                 /\ \A j \in 1..Len(bus) : bus[j].mac # fired[k].mac
                 /\ \A j \in 1..Len(fired) : j # k => fired[j].mac # fired[k].mac
                 /\ ~IsMember(devices, fired[k].mac)
                 /\ IsMember(devices', fired[k].mac)
                 /\ \E e \in 1..Len(last'.entries) :
                       normalize_mac(last'.entries[e].mac) = fired[k].mac
           /\ \A mac \in MACS : IsMember(devices, mac) => IsMember(devices', mac)]_vars

\* A cycle in which two sources sighted a new MAC, which fired one event,
\* and a source sighted a member, which fired none.
C13_Witness ==
    /\ last.op = "cycle"
    /\ \E i, j \in 1..Len(last.entries) :
          /\ i # j
          /\ last.entries[i].mac = last.entries[j].mac
          /\ \E k \in 1..Len(last.fired) : last.fired[k].mac = last.entries[i].mac
    /\ \E i \in 1..Len(last.entries) :
          \A k \in 1..Len(last.fired) : last.fired[k].mac # last.entries[i].mac
    /\ Len(bus) > Len(last.fired)

\* C14: carry-forward.  After a successful cycle, every primary of the
\* coordinator's alias in the registry none of whose member MACs the cycle
\* sighted is in the output with online False, and its other attributes are
\* those of the coordinator's previous output; the previous output lacks it
\* only when the coordinator has no previous output (its first cycle).
C14_CarryForward ==
    [][last'.op = "cycle" =>
         \A i \in 1..Len(devices') :
            (/\ devices'[i].alias = CoordinatorAlias
             /\ \A e \in 1..Len(last'.entries) :
                   ~InSeq(normalize_mac(last'.entries[e].mac), devices'[i].macs))
              => LET k == ClientIdx(data', devices'[i].primary)
                     p == ClientIdx(data, devices'[i].primary)
                 IN  /\ k # 0
                     /\ ~data'[k].online
                     /\ p # 0 => data'[k] = [data[p] EXCEPT !.online = FALSE]
                     /\ p = 0 => data = <<>>]_vars

\* A device that an earlier cycle saw online on an interface is in the output
\* of a cycle that sighted other devices only: offline, its attributes kept.
C14_Witness ==
    /\ last.op = "cycle"
    /\ last.entries # <<>>
    /\ \E i \in 1..Len(data) :
          /\ data[i].primary_mac \notin last.seen
          /\ ~data[i].online
          /\ Truthy(data[i].interface)
          /\ Truthy(data[i].ipv4)
          /\ data[i].last_seen # utcnow_iso(calls)

\* C17: in every output of a successful cycle, the macs of each NxClient
\* contain its primary_mac.
C17_PrimaryAmongMacs ==
    \A i \in 1..Len(data) : data[i].primary_mac \in data[i].macs

\* The MACs of pending that are a record key or a member of a record.
PendingAssociated(known_devices) ==
    {known_devices.pending[i] : i \in 1..Len(known_devices.pending)}
      \cap ({known_devices.devices[j].primary : j \in 1..Len(known_devices.devices)}
            \cup UNION {{known_devices.devices[j].macs[k] :
                           k \in 1..Len(known_devices.devices[j].macs)} :
                        j \in 1..Len(known_devices.devices)})

\* C21: in every store reachable from the empty store by consolidate_devices
\* and _register_secondary_mac, no MAC is in pending and also a key or a
\* member of a record; and whatever _register_secondary_mac is called with
\* next, the two MACs it associates are not in pending afterwards and the
\* store it leaves has no such MAC either.
C21_PendingDisjoint ==
    variant = "known_devices" =>
        /\ PendingAssociated(known) = {}
        /\ \A primary_mac \in RAWMACS, new_mac \in RAWMACS :
              \A r \in {_register_secondary_mac(primary_mac, new_mac, known)} :
                  /\ PendingAssociated(r.known) = {}
                  /\ (Truthy(api_normalize_mac(primary_mac))
                        /\ Truthy(api_normalize_mac(new_mac)))
                     => /\ ~InSeq(api_normalize_mac(primary_mac), r.known.pending)
                        /\ ~InSeq(api_normalize_mac(new_mac), r.known.pending)

\* A curated store with a record and a pending MAC: associating the pending
\* MAC with the record is one of the calls that can come next.
C21_Witness ==
    /\ variant = "known_devices"
    /\ last.op = "consolidate"
    /\ known.devices # <<>>
    /\ \E new_mac \in MACS :
          /\ InSeq(new_mac, known.pending)
          /\ _register_secondary_mac(known.devices[1].primary, new_mac, known).changed

\* Canonical MAC text: six pairs of upper-case hex digits joined by colons.
IsCanonicalMac(mac) ==
    /\ Len(mac) = MacMatchLen
    /\ \A i \in 1..MacMatchLen :
          IF i % 3 = 0 THEN mac[i] = ":" ELSE mac[i] \in HexUpper

OnlyCanonicalMacs(devs) ==
    \A i \in 1..Len(devs) :
        /\ IsCanonicalMac(devs[i].primary)
        /\ \A k \in 1..Len(devs[i].macs) : IsCanonicalMac(devs[i].macs[k])

\* C22: after a load, of the known-devices store or of the DeviceRegistry,
\* a missing document has given the empty store, and every record key, every
\* member MAC and every pending MAC is canonical (what fails normalization
\* is gone).
C22_LoadYieldsCanonical ==
    last.op = "load" =>
        /\ variant = "known_devices" =>
              /\ stored = NoDocument => known = [devices |-> <<>>, pending |-> <<>>]
              /\ OnlyCanonicalMacs(known.devices)
              /\ \A i \in 1..Len(known.pending) : IsCanonicalMac(known.pending[i])
        /\ variant = "registry" =>
              /\ stored = <<>> => devices = <<>>
              /\ OnlyCanonicalMacs(devices)

\* The devices map as a set of (key, member set) pairs.
DevicesMap(devs) ==
    {<<devs[i].primary, {devs[i].macs[k] : k \in 1..Len(devs[i].macs)}>> :
       i \in 1..Len(devs)}

\* C23: for every store reachable from the empty store by consolidate_devices
\* and _register_secondary_mac, loading what _save_known_devices wrote gives
\* the same devices map (keys and member sets) and the same pending set.
C23_SaveLoadLossless ==
    variant = "known_devices" =>
        \A loaded \in {_load_known_devices(_save_known_devices(known))} :
            /\ DevicesMap(loaded.devices) = DevicesMap(known.devices)
            /\ {loaded.pending[i] : i \in 1..Len(loaded.pending)}
                 = {known.pending[i] : i \in 1..Len(known.pending)}

\* C24: each normalizer returns, for every text (empty, malformed and None
\* included), either a canonical MAC or None; and applied to what it
\* returned itself, it returns that again.
C24_NormalizeTotalIdempotent ==
    last.op \in {"normalize_mac", "_normalize_mac"} =>
        /\ last.ret = None \/ IsCanonicalMac(last.ret)
        /\ last.by = last.op => last.ret = last.mac

\* A normalizer was applied to the MAC it had made of text in another form.
C24_Witness ==
    /\ last.op \in {"normalize_mac", "_normalize_mac"}
    /\ last.by = last.op
    /\ IsCanonicalMac(last.mac)
    /\ last.text # last.mac
    /\ last.ret = last.mac

\* C25: after consolidate_devices, the MACs of the store (record keys,
\* members, pending) and of the output (keys / primary_mac, mac_addresses)
\* are all in the one canonical form, and every key of the output is,
\* literally, a key of the store's devices map.
C25_OneCanonicalForm ==
    (variant = "known_devices" /\ last.op = "consolidate") =>
        /\ OnlyCanonicalMacs(known.devices)
        /\ \A i \in 1..Len(known.pending) : IsCanonicalMac(known.pending[i])
        /\ \A i \in 1..Len(last.consolidated) :
              /\ IsCanonicalMac(last.consolidated[i].primary_mac)
              /\ \A m \in last.consolidated[i].mac_addresses : IsCanonicalMac(m)
              /\ KeyIdx(known.devices, last.consolidated[i].primary_mac) # 0

\* The entries of a cycle that resolved to a primary, in the order the cycle
\* read them (a MAC resolves to the record that holds it when the cycle ends:
\* within a cycle a MAC is only ever added to the record it resolved to).
Contributing(entries, devs, primary) ==
    SelectSeq(entries, LAMBDA e :
        get_primary_for_mac(devs, CoordinatorAlias, normalize_mac(e.mac)) = primary)

\* The non-null values that the entries carry for a field, in order.
ScalarValues(entries, field) ==
    SelectSeq([i \in 1..Len(entries) |->
                 LET d == SightingData(entries[i], None)
                 IN  IF field = "hostname" /\ Truthy(d.hostname) THEN Strip(d.hostname)
                     ELSE d[field]],
              Truthy)

ScalarFields ==
    {"hostname", "ipv4", "ipv6", "interface", "connection_type", "signal_dbm",
     "dhcp_source"}

\* C26: in the output of a cycle, each scalar attribute that a record of the
\* cycle set holds the first non-null value in the order static host, DHCP
\* lease, neighbor / wifi sighting: no later record of the cycle has
\* overwritten it.
C26_FirstNonNullWins ==
    [][last'.op = "cycle" =>
         \A k \in 1..Len(data') : \A field \in ScalarFields :
            \A values \in {ScalarValues(Contributing(last'.entries, devices',
                                                     data'[k].primary_mac), field)} :
                values # <<>> => data'[k][field] = values[1]]_vars

\* C27: in the output of a successful cycle, a device that a record of the
\* cycle resolved to is online exactly when one of its records was a
\* neighbor or wifi sighting (the records that report online), whatever its
\* other records reported and whatever it was in the output before.
C27_OnlineIffAnySighting ==
    [][last'.op = "cycle" =>
         \A k \in 1..Len(data') :
            data'[k].primary_mac \in last'.seen =>
               (data'[k].online <=>
                  \E contributing \in {Contributing(last'.entries, devices',
                                                    data'[k].primary_mac)} :
                     \E i \in 1..Len(contributing) :
                        SightingData(contributing[i], None).online)]_vars

\* A device with a DHCP record (offline) and a sighting (online) in one
\* cycle is online; a device left without a sighting in the cycle after one
\* that saw it online is not (its record of that cycle says offline).
C27_Witness ==
    /\ last.op = "cycle"
    /\ calls = MaxCalls
    /\ \E k \in 1..Len(data) :
          /\ data[k].primary_mac \in last.seen
          /\ ~data[k].online
          /\ Truthy(data[k].interface)
    /\ \E k \in 1..Len(data) :
          /\ data[k].online
          /\ \E i, j \in 1..Len(last.entries) :
                /\ ~SightingData(last.entries[i], None).online
                /\ SightingData(last.entries[j], None).online
                /\ {normalize_mac(last.entries[i].mac), normalize_mac(last.entries[j].mac)}
                     \subseteq data[k].macs

\* C29: a cycle that ends by raising UpdateFailed leaves the registry as it
\* was when the cycle began, issues no save (the stored document stays) and
\* fires no event.
C29_FailedCycleTouchesNothing ==
    [][last'.op = "cycle_failed" =>
         /\ devices' = devices
         /\ stored' = stored
         /\ bus' = bus]_vars

\* A cycle failed at a collector that was not the first, over a registry
\* that holds devices.
C29_Witness ==
    /\ last.op = "cycle_failed"
    /\ last.answered # {}
    /\ devices # <<>>

\* C30: a cycle in which one collector fails while another has answered
\* still completes: it ends in UpdateFailed only when no collector answered.
C30_PartialFailureCompletes ==
    [][last'.op = "cycle_failed" => last'.answered = {}]_vars


NoEqualConnections(connections) ==
    \A i, j \in 1..Len(connections) : i # j => connections[i] # connections[j]

\* The discovered devices folded into the entry: those of its MACs.
FoldedInto(entry, discovered) ==
    {discovered[k] : k \in {k \in 1..Len(discovered) :
                              InSeq(discovered[k].mac, entry.mac_addresses)}}

\* Every set-valued field is the union of what the folded records carry.
SetFieldsAreUnions(entry, folded) ==
    /\ SeqSet(entry.mac_addresses) = {d.mac : d \in folded}
    /\ entry.interfaces = {d.interface : d \in folded}
    /\ entry.radios = {WifiRadios[d.interface] : d \in folded} \ {None}
    /\ entry.ipv4_addresses = {d.ip : d \in {d \in folded : IpVersion(d.ip) = 4}}
    /\ entry.ipv6_addresses = {d.ip : d \in {d \in folded : IpVersion(d.ip) = 6}}

MergedFieldsAreUnions(merged, target, source) ==
    /\ SeqSet(merged.mac_addresses)
          = SeqSet(target.mac_addresses) \cup SeqSet(source.mac_addresses)
    /\ merged.interfaces = target.interfaces \cup source.interfaces
    /\ merged.radios = target.radios \cup source.radios
    /\ merged.ipv4_addresses = target.ipv4_addresses \cup source.ipv4_addresses
    /\ merged.ipv6_addresses = target.ipv6_addresses \cup source.ipv6_addresses

\* C28: after the records that resolve to one primary are folded, by the
\* aggregator (add_device, as_payload) or by _merge_device_entries, every
\* set-valued field of the device is the union of the contributing records'
\* values and no two entries of its connection list are equal in all fields.
C28_SetValuedMerge ==
    /\ last.op = "fetch" =>
          \A i \in 1..Len(last.payload) :
              /\ SetFieldsAreUnions(last.payload[i],
                                    FoldedInto(last.payload[i], last.discovered))
              /\ NoEqualConnections(last.payload[i].connections)
    /\ last.op = "merge" =>
          /\ MergedFieldsAreUnions(last.merged, last.target, last.source)
          /\ NoEqualConnections(last.merged.connections)


\* The members of the record under key in a store, {} when there is none.
Members(devs, key) ==
    IF KeyIdx(devs, key) = 0 THEN {}
    ELSE {devs[KeyIdx(devs, key)].macs[k] : k \in 1..Len(devs[KeyIdx(devs, key)].macs)}

\* other_mac went from record R to record P and nothing else of R moved.
MovedOneMac(before, after, P, other_mac, R) ==
    /\ other_mac \in Members(after, P)
    /\ other_mac \notin Members(after, R)
    /\ \A m \in Members(before, R) \ {other_mac} :
          m \in Members(after, R) /\ m \notin Members(after, P)
    /\ KeyIdx(after, R) = 0 => Members(before, R) = {other_mac}

\* add_mac of the map_mac service, on a MAC of another record of the alias.
RegistryAbsorbMovesOne ==
    (last'.op = "service" /\ last'.err = NoErr) =>
        \A R \in {get_primary_for_mac(devices, last'.alias, last'.alt)} :
            (Truthy(R) /\ R # last'.primary) =>
                MovedOneMac(devices, devices', last'.primary, last'.alt, R)

\* _register_secondary_mac on a MAC listed in another record.
KnownAbsorbMovesOne ==
    (last'.op = "register" /\ Truthy(last'.primary) /\ Truthy(last'.new)) =>
        \A i \in 1..Len(known.devices) :
            (known.devices[i].primary # last'.primary
               /\ InSeq(last'.new, known.devices[i].macs)) =>
                MovedOneMac(known.devices, known'.devices, last'.primary,
                            last'.new, known.devices[i].primary)

\* C33: an association whose other_mac belongs to a different record R than
\* the target primary P moves exactly that MAC: afterwards it is a member of
\* P and not of R, every other member of R is still a member of R and not of
\* P, and R is deleted only if other_mac was its sole member.
C33_AbsorbMovesOneMac == [][RegistryAbsorbMovesOne /\ KnownAbsorbMovesOne]_vars


\* Every member list is non-empty, lists no MAC twice and starts with the
\* key of its record.
MemberListsWellFormed(devs) ==
    \A i \in 1..Len(devs) :
        /\ devs[i].macs # <<>>
        /\ \A j, k \in 1..Len(devs[i].macs) :
              j # k => devs[i].macs[j] # devs[i].macs[k]
        /\ devs[i].macs[1] = devs[i].primary

\* C34: in every store reachable from the empty store (the DeviceRegistry
\* through map_mac / add_mac, the known-devices store through
\* consolidate_devices / _register_secondary_mac), each record's member list
\* is non-empty, has no duplicates and has the record's key as first element.
C34_MemberListsWellFormed ==
    /\ MemberListsWellFormed(devices)
    /\ MemberListsWellFormed(known.devices)


\* C36: the dirty flag consolidate_devices returns is true exactly when the
\* call changed the known-devices store (a record created in bootstrap mode,
\* a MAC appended to pending); when it is false, devices and pending are as
\* they were before the call.
C36_DirtyIffChanged ==
    [][last'.op = "consolidate" => (last'.dirty <=> known' # known)]_vars

\* A call on a curated store whose devices were all known: something was
\* consolidated and the flag is false.
C36_Witness ==
    /\ last.op = "consolidate"
    /\ ~last.dirty
    /\ last.consolidated # <<>>
    /\ known.devices # <<>>


\* C37: the keys of the client map a successful cycle returns are exactly
\* the registry primaries whose alias is the coordinator's alias, each once.
C37_KeysArePrimaries ==
    last.op = "cycle" =>
        \A primaries \in {{devices[j].primary :
                             j \in {j \in 1..Len(devices) :
                                      devices[j].alias = CoordinatorAlias}}} :
            /\ {data[i].primary_mac : i \in 1..Len(data)} = primaries
            /\ Len(data) = Cardinality(primaries)

\* A cycle after a restart that returned a primary it sighted and a primary
\* it only found in the registry.
C37_Witness ==
    /\ last.op = "cycle"
    /\ \E i, j \in 1..Len(data) :
          /\ data[i].primary_mac \in last.seen
          /\ data[j].primary_mac \notin last.seen
          /\ data[j].last_seen = None


\* C38: in the payload of one aggregator, every sighted MAC is in the
\* mac_addresses of exactly one device, the primary of every device is a
\* sighted MAC and the first of the device's mac_addresses, and no MAC is
\* listed twice in them.
C38_OneDevicePerMac ==
    last.op = "fetch" =>
        /\ \A k \in 1..Len(last.discovered) :
              Cardinality({i \in 1..Len(last.payload) :
                             InSeq(last.discovered[k].mac,
                                   last.payload[i].mac_addresses)}) = 1
        /\ \A i \in 1..Len(last.payload) :
              \A macs \in {last.payload[i].mac_addresses} :
                 /\ \E k \in 1..Len(last.discovered) :
                       last.discovered[k].mac = last.payload[i].primary_mac
                 /\ macs # <<>>
                 /\ macs[1] = last.payload[i].primary_mac
                 /\ \A j, k \in 1..Len(macs) : j # k => macs[j] # macs[k]

\* Two MACs that shared an address are one device whose primary, first in
\* the list, sorts after the other.
C38_Witness ==
    /\ last.op = "fetch"
    /\ \E i \in 1..Len(last.payload) :
          /\ Len(last.payload[i].mac_addresses) = 2
          /\ StrLess(last.payload[i].mac_addresses[2], last.payload[i].mac_addresses[1])
          /\ Len(last.payload[i].connections) > 2


\* The partition of the MACs into devices that a payload makes.
Partition(payload) == {SeqSet(payload[i].mac_addresses) : i \in 1..Len(payload)}

\* What the interfaces answered, in the order other lists them.
AnswersInOrder(other, interfaces, answers) ==
    [k \in 1..Len(other) |->
       answers[CHOOSE j \in 1..Len(interfaces) : interfaces[j] = other[k]]]

\* C39: the grouping of the aggregator does not depend on the order of the
\* records: the same records added in another order (the router listing its
\* interfaces in another order) give the same partition of the MACs into
\* devices.
C39_GroupingOrderIndependent ==
    last.op = "fetch" =>
        \A other \in InterfaceOrders :
            Partition(fetch_interface_devices(
                        other, AnswersInOrder(other, last.interfaces, last.answers)))
              = Partition(last.payload)


\* The primaries of the coordinator's alias in a registry.
AliasPrimaries(devs) ==
    {devs[j].primary : j \in {j \in 1..Len(devs) : devs[j].alias = CoordinatorAlias}}

\* While the cycle is between resolving its records and returning, nothing
\* changes the registry.
NoMutationWhileCycleSaves == tasks.cycle.pc = "saving" => devices' = devices

\* Every key of the output a cycle returns is a primary of the
\* coordinator's alias in the registry when the cycle returns.
ReturnedKeysArePrimaries ==
    last'.op = "cycle" =>
        {data'[i].primary_mac : i \in 1..Len(data')} \subseteq AliasPrimaries(devices')

\* C31: association and aggregation are serialized on the registry: the
\* service's mutation never takes effect between the cycle's resolving and
\* its return, and every key of a returned output is a primary of the
\* coordinator's alias in the registry at the return.
C31_AssociationSerializedWithCycle ==
    [][NoMutationWhileCycleSaves /\ ReturnedKeysArePrimaries]_vars

\* alt_mac is a member of the record of primary_mac in a registry.
Associated(devs, primary_mac, alt_mac) ==
    \E j \in 1..Len(devs) : devs[j].primary = primary_mac /\ InSeq(alt_mac, devs[j].macs)

\* The handler reaches its await: the registry is mutated, nothing is
\* written, removed or refreshed yet.
MutatedBeforeSave ==
    (tasks.service.pc = "idle" /\ tasks'.service.pc = "saving") =>
        /\ Associated(devices', last'.primary, last'.alt)
        /\ stored' = stored
        /\ last'.removed = None /\ ~last'.refreshed

\* The save completes: the association is on disk, and only now the entity
\* of the alt MAC is removed and a refresh requested.
RemovedAndRefreshedAfterSave ==
    /\ (tasks.service.pc = "saving" /\ last'.op = "service" /\ last'.err = NoErr) =>
          /\ Associated(stored', last'.primary, last'.alt)
          /\ last'.removed = <<last'.alias, Without(last'.alt, ":")>>
          /\ last'.refreshed
    /\ (last' # last /\ "removed" \in DOMAIN last'
          /\ (last'.removed # None \/ last'.refreshed)) =>
          /\ tasks.service.pc = "saving" /\ tasks'.service.pc = "idle"
          /\ last'.saved

\* The save fails: the caller gets the error, nothing is removed or
\* refreshed, nothing is written, and the registry in memory keeps the
\* association.
SaveFailurePropagates ==
    (tasks.service.pc = "saving" /\ last'.op = "service" /\ last'.err # NoErr) =>
        /\ last'.err = ErrWrite
        /\ last'.removed = None /\ ~last'.refreshed
        /\ stored' = stored
        /\ devices' = devices
        /\ Associated(devices', last'.primary, last'.alt)

\* C35: inside the map_mac service call the registry is mutated, then
\* saved, and only after the save completed the alt MAC's entity is removed
\* and a refresh requested; if the save fails the error propagates, nothing
\* is removed or refreshed, and the registry in memory keeps the association.
C35_MutateSaveThenRemoveAndRefresh ==
    [][MutatedBeforeSave /\ RemovedAndRefreshedAfterSave /\ SaveFailurePropagates]_vars

\* A service call whose save failed after it merged one record into another:
\* the merge is in memory, not on disk.
C35_Witness ==
    /\ last.op = "service"
    /\ last.err = ErrWrite
    /\ Associated(devices, last.primary, last.alt)
    /\ ~Associated(stored, last.primary, last.alt)
    /\ last.primary # last.alt


\* Every member MAC of every record of a registry is a member of a record
\* of the same alias in a loaded registry.
ContainsRegistry(loaded, devs) ==
    \A j \in 1..Len(devs) : \A k \in 1..Len(devs[j].macs) :
        \E i \in 1..Len(loaded) : /\ loaded[i].alias = devs[j].alias
                                  /\ InSeq(devs[j].macs[k], loaded[i].macs)

\* C32: identity mappings are durable across restarts, also with several
\* config entries: once a registry's save at the end of a cycle or of an
\* association has completed, a DeviceRegistry loaded afterwards contains
\* every record and member MAC that was in the saving registry.
C32_SavedRegistrySurvivesLoad ==
    \A i \in 1..Len(hass_data) :
        hass_data[i].saved => ContainsRegistry(async_load(stored), hass_data[i].devices)

====
